---- MODULE Spec2Model ----
(***************************************************************************)
(* EthicalScraper (src/search/scraper.ts, retry version carried in         *)
(* src/search/parsers/author-extractor.ts lines 779-1030): the singleton   *)
(* fetcher with robots.txt check, HTML cache, per-domain rate limit and    *)
(* retry/backoff, called concurrently by several callers.                  *)
(*                                                                         *)
(* Time is in milliseconds.  Date.now() is far above every delay, so the   *)
(* state keeps ages (now - timestamp) instead of timestamps; an age is     *)
(* capped at the first value above which the code's comparisons no longer  *)
(* distinguish it.  Code between two awaits on I/O or timers runs without  *)
(* interleaving (single-threaded event loop), so each action is the code   *)
(* from one suspension point to the next.                                  *)
(***************************************************************************)
EXTENDS Integers, Sequences, FiniteSets, TLC

VARIABLES
    rateLimits,   \* Map<domain, RateLimitEntry>
    robotsCache,  \* Map<domain, parsed robots.txt>: TRUE when the domain has an entry
    htmlCache,    \* Map<url, {content, timestamp}>: age of the entry, NoEntry when absent
    proc,         \* each concurrent caller's fetch(): position, arguments, timer
    config,       \* config.maxRequestsPerHour, read from the environment at start-up
    busy,         \* environment: the domains that answer every page request with 429
    faults,       \* environment: failed page requests the run may still see
    calls,        \* environment: fetch calls the callers may still make
    hist,         \* observation: what each caller's current fetch call has done
    obs,          \* observation: per domain, the time since the last page request left
    pureCall      \* a call of one of the functions outside the scraper: arguments, result

vars == <<rateLimits, robotsCache, htmlCache, proc, config, busy, faults, calls, hist, obs,
          pureCall>>

----------------------------------------------------------------------------
\* Bounds of the model

NumProcs == 2          \* concurrent callers of scraper.fetch
MaxCalls == 3          \* fetch calls made in one run, over all callers
Max429 == 1            \* 429 answers one call gets from a domain that is not in busy
MaxFaults == 2         \* failed page requests in one run, outside the busy domains
SmallCeiling == 3      \* MAX_REQUESTS_PER_HOUR configured for the bounded runs
CrawlDelaySecs == 3    \* Crawl-delay (seconds) that the domain's robots.txt declares
TickStep == 1000       \* the small clock step, below the minimum delay

\* Program constants

minDelayBetweenRequests == 2000
DefaultMaxRequestsPerHour == 100
MAX_RETRIES == 3
HOUR_MS == 60 * 60 * 1000
CACHE_TTL_MS == 24 * 60 * 60 * 1000

Procs == 1..NumProcs
Domains == {"d1"}
Urls == {"u1", "u2"}
NoEntry == -1

Min(a, b) == IF a < b THEN a ELSE b
Max(a, b) == IF a > b THEN a ELSE b

\* new URL(url).hostname
hostname(u) == "d1"

\* The robots.txt the domain serves: it disallows u2 and declares a Crawl-delay
RobotsDisallow(d) == {"u2"}
getCrawlDelay(d) == CrawlDelaySecs
isAllowed(u) == u \notin RobotsDisallow(hostname(u))

\* Largest delay the rate limiter can ask for; ages of lastRequest are capped here.
MaxAge == Max(minDelayBetweenRequests, CrawlDelaySecs * 1000)
HourCap == HOUR_MS + 1

Pow2(n) == IF n = 0 THEN 1 ELSE IF n = 1 THEN 2 ELSE IF n = 2 THEN 4
           ELSE IF n = 3 THEN 8 ELSE IF n = 4 THEN 16 ELSE 32

----------------------------------------------------------------------------
\* The state the fetcher's code reads and writes, as one record, so that the
\* code of one handler is a composition of functions on it.

Cur == [rateLimits |-> rateLimits, robotsCache |-> robotsCache,
        htmlCache |-> htmlCache, proc |-> proc, hist |-> hist, obs |-> obs]

Cap(n, c) == IF n > c THEN c ELSE n

\* rateLimits.get(domain) === undefined.  lastRequest: 0 is the epoch, so its
\* age is above every delay.
NoLimit == [present |-> FALSE, lastAge |-> MaxAge, requestCount |-> 0,
            hourAge |-> 0, customDelay |-> 0]

\* sinceSent: time since the last page request to the domain left; sentCached:
\* the robots.txt rules were cached when it left; robotsRequested: a robots.txt
\* request has been sent to the domain.
NewObs == [sinceSent |-> MaxAge, sentCached |-> FALSE, robotsRequested |-> FALSE]

\* A caller outside a call: before its first call, or with a call's outcome.
\* seq is the parity of the calls it has made.
Outside(where, how, seq) == [pc |-> where, url |-> "u1", skip |-> FALSE, retryCount |-> 0,
                             wake |-> 0, outcome |-> how, seq |-> seq]

\* attempts: page requests sent; n429: 429 answers; terminal: a 4xx answer other
\* than 429 came; rl: applyRateLimit was entered; slept: a timer was awaited;
\* robotsReq: a robots.txt request was sent; stale: another caller overwrote
\* lastRequest after this caller's delay check read it; seenDisallow: the robots
\* check of this call evaluated parsed rules that disallow the URL; fresh: the
\* URL's body was cached and below the TTL when fetch was last entered.
NewHist == [attempts |-> 0, n429 |-> 0, terminal |-> FALSE, rl |-> FALSE,
            slept |-> FALSE, robotsReq |-> FALSE, stale |-> FALSE,
            seenDisallow |-> FALSE, fresh |-> FALSE]

\* htmlCache lookup, lines 836-837
cacheFresh(S, u) == S.htmlCache[u] # NoEntry /\ S.htmlCache[u] < CACHE_TTL_MS

\* this.sleep(ms): the caller is parked on a timer
sleep(S, p, ms, where) ==
    [S EXCEPT !.proc[p].pc = where, !.proc[p].wake = ms, !.hist[p].slept = TRUE]

\* fetch() returns content or throws: the call is over, and of the
\* observation only what the robots check and the last answer were is kept,
\* and for a disallowed URL whether its body was cached
finish(S, p, how) ==
    [S EXCEPT !.proc[p] = Outside("done", how, S.proc[p].seq),
              !.hist[p] = [NewHist EXCEPT !.seenDisallow = S.hist[p].seenDisallow,
                                          !.terminal = S.hist[p].terminal,
                                          !.fresh = S.hist[p].fresh
                                                    /\ S.hist[p].seenDisallow]]

\* this.axiosInstance.get(url), line 846: the page request leaves.  Callers
\* asleep in the rate limiter of the same domain have read a lastRequest that
\* is now overwritten.
axiosGet(S, p) ==
    LET d == hostname(S.proc[p].url)
        o == S.obs[d]
        waiting == {q \in Procs \ {p} : S.proc[q].pc = "sleepRL"
                                        /\ hostname(S.proc[q].url) = d}
    IN [S EXCEPT
          !.proc[p].pc = "req",
          !.hist = [q \in Procs |->
                      IF q = p THEN [S.hist[p] EXCEPT
                                       !.attempts = Cap(@ + 1, MAX_RETRIES + 2),
                                       !.stale = FALSE]
                      ELSE IF q \in waiting THEN [S.hist[q] EXCEPT !.stale = TRUE]
                      ELSE S.hist[q]],
          !.obs[d] = [o EXCEPT !.sinceSent = 0, !.sentCached = S.robotsCache[d]]]

\* applyRateLimit, lines 983-985: entry.lastRequest = Date.now(); entry.requestCount++
\* and the return into fetch, which sends the request at once.
trackRequest(S, p) ==
    LET d == hostname(S.proc[p].url)
    IN axiosGet([S EXCEPT !.rateLimits[d].lastAge = 0,
                          !.rateLimits[d].requestCount = @ + 1], p)

\* applyRateLimit, lines 949-981: up to the sleep, or through to the request
applyRateLimit(S, p) ==
    LET d == hostname(S.proc[p].url)
        e0 == S.rateLimits[d]
        e1 == IF ~e0.present
              THEN [present |-> TRUE, lastAge |-> MaxAge, requestCount |-> 0,
                    hourAge |-> 0, customDelay |-> 0]
              ELSE e0
        e2 == IF e1.hourAge > HOUR_MS
              THEN [e1 EXCEPT !.requestCount = 0, !.hourAge = 0]
              ELSE e1
        customDelay == IF e2.customDelay # 0 THEN e2.customDelay ELSE minDelayBetweenRequests
        timeSinceLastRequest == e2.lastAge
        S1 == [S EXCEPT !.rateLimits[d] = e2, !.hist[p].rl = TRUE]
    IN IF e2.requestCount >= config.maxRequestsPerHour
       THEN finish(S1, p, "rateLimitError")
       ELSE IF timeSinceLastRequest < customDelay
       THEN sleep(S1, p, customDelay - timeSinceLastRequest, "sleepRL")
       ELSE trackRequest(S1, p)

\* (mutant) the rate limiter runs before the cache lookup
fetchAfterRobots_RateFirst(S, p) ==
    LET R == applyRateLimit(S, p)
    IN IF cacheFresh(S, S.proc[p].url) /\ R.proc[p].pc = "req"
       THEN finish([R EXCEPT !.obs = S.obs], p, "cached")
       ELSE R

\* fetch, lines 835-846: cache check, rate limit, request
fetchAfterRobots(S, p) ==
    IF cacheFresh(S, S.proc[p].url)
    THEN finish(S, p, "cached")
    ELSE applyRateLimit(S, p)

\* (mutant) the cache is looked up before the verdict is acted on
afterVerdict_CacheFirst(S, p, allowed) ==
    IF cacheFresh(S, S.proc[p].url) THEN finish(S, p, "cached")
    ELSE IF ~allowed THEN finish(S, p, "policyError") ELSE applyRateLimit(S, p)

\* fetch, lines 829-833: the verdict of checkRobotsTxt
afterVerdict(S, p, allowed) ==
    IF ~allowed THEN finish(S, p, "policyError") ELSE fetchAfterRobots(S, p)

\* (mutant) the robots cache is never consulted
robotsCacheHas_Never(S, d) == FALSE

\* checkRobotsTxt, line 909
robotsCacheHas(S, d) == S.robotsCache[d]

\* (mutant) the verdict of the parsed rules is dropped
rulesAllow_Always(u) == TRUE

\* robots.isAllowed(url, 'AlignaPRBot') ?? true on the parsed rules, lines 911 and 935
rulesAllow(u) == isAllowed(u)

\* fetch from its entry (lines 823-833) to its first suspension: the robots
\* check answers from the cache or sends the robots.txt request (line 916).
fetch(S, p) ==
    LET u == S.proc[p].url
        d == hostname(u)
        S1 == [S EXCEPT !.hist[p].fresh = cacheFresh(S, u)]
    IN IF S.proc[p].skip
       THEN fetchAfterRobots(S1, p)
       ELSE IF robotsCacheHas(S1, d)
       THEN afterVerdict([S1 EXCEPT !.hist[p].seenDisallow = ~isAllowed(u)], p, rulesAllow(u))
       ELSE [S1 EXCEPT !.proc[p].pc = "robots",
                       !.hist[p].robotsReq = TRUE,
                       !.obs[d].robotsRequested = TRUE]

\* (mutant) an unavailable robots.txt counts as a disallow
robotsUnavailable_Deny(S, p) == afterVerdict(S, p, FALSE)

\* checkRobotsTxt, lines 938-943: a status other than 200, or the request
\* failed: return true
robotsUnavailable(S, p) == afterVerdict(S, p, TRUE)

\* checkRobotsTxt, lines 921-943: the robots.txt response arrives
checkRobotsTxtResponse(S, p, status) ==
    LET u == S.proc[p].url
        d == hostname(u)
        crawlDelay == getCrawlDelay(d)
        setDelay == crawlDelay # 0 /\ crawlDelay * 1000 > minDelayBetweenRequests
                    /\ S.rateLimits[d].present
        S1 == [S EXCEPT !.robotsCache[d] = TRUE,
                        !.rateLimits[d] = IF setDelay
                                          THEN [@ EXCEPT !.customDelay = crawlDelay * 1000]
                                          ELSE @,
                        !.hist[p].seenDisallow = ~isAllowed(u)]
    IN IF status = "200"
       THEN afterVerdict(S1, p, rulesAllow(u))
       ELSE robotsUnavailable(S, p)

\* (mutant) every error status counts as transient
isTransientError_AnyStatus(kind) == kind \in {"net", "5xx", "4xx"}

\* isTransientError, lines 882-892: a code of TRANSIENT_ERRORS, or a status >= 500
isTransientError(kind) == kind = "net" \/ kind = "5xx"

\* (mutant) off by one in the retry ceiling
shouldRetry_OneMore(kind, retryCount) == isTransientError(kind) /\ retryCount <= MAX_RETRIES

\* fetch, line 864
shouldRetry(kind, retryCount) == isTransientError(kind) /\ retryCount < MAX_RETRIES

\* calculateRetryDelay, lines 897-902
calculateRetryDelay(retryCount, jitter) == 1000 * Pow2(retryCount) + jitter

\* handleRateLimit, lines 991-1000; without an entry it returns at once and
\* fetch calls itself (line 860)
handleRateLimit(S, p) ==
    LET e == S.rateLimits[hostname(S.proc[p].url)]
    IN IF e.present
       THEN sleep(S, p, 5000 * Pow2(Min(e.requestCount, 5)), "sleep429")
       ELSE fetch(S, p)

\* fetch, lines 846-876: the answer to the page request arrives
pageResponse(S, p, kind, jitter) ==
    LET u == S.proc[p].url
        S1 == [S EXCEPT !.hist[p].terminal = @ \/ kind = "4xx",
                        !.hist[p].n429 = IF kind = "429" THEN Cap(@ + 1, Max429) ELSE @]
    IN IF kind = "200"
       THEN finish([S1 EXCEPT !.htmlCache[u] = 0], p, "body")
       ELSE IF kind = "429"
       THEN handleRateLimit(S1, p)
       ELSE IF shouldRetry(kind, S.proc[p].retryCount)
       THEN sleep(S1, p, calculateRetryDelay(S.proc[p].retryCount, jitter), "sleepRetry")
       ELSE finish(S1, p, "httpError")

----------------------------------------------------------------------------
\* Actions

Install(S) ==
    /\ rateLimits' = S.rateLimits
    /\ robotsCache' = S.robotsCache
    /\ htmlCache' = S.htmlCache
    /\ proc' = S.proc
    /\ hist' = S.hist
    /\ obs' = S.obs
    /\ UNCHANGED <<config, busy, pureCall>>

\* A caller that is not inside a call calls scraper.fetch(url, skipRobotsCheck)
\* (retryCount = 0).  Callers are interchangeable: caller p starts only after
\* the callers below it.
Start(p) ==
    /\ proc[p].pc \in {"idle", "done"}
    /\ calls > 0
    /\ \A q \in Procs : q < p => proc[q].pc # "idle"
    /\ \E u \in Urls, s \in BOOLEAN :
         Install(fetch([Cur EXCEPT
                          !.proc[p] = [pc |-> "idle", url |-> u, skip |-> s,
                                       retryCount |-> 0, wake |-> 0,
                                       outcome |-> "none", seq |-> 1 - proc[p].seq],
                          !.hist[p] = NewHist], p))
    /\ calls' = calls - 1
    /\ UNCHANGED faults

\* The robots.txt request is answered: 200, another status below 500, or a
\* failure (5xx, network error, the 5 s timeout)
RobotsResponse(p) ==
    /\ proc[p].pc = "robots"
    /\ \E status \in {"200", "non200", "fail"} :
         Install(checkRobotsTxtResponse(Cur, p, status))
    /\ UNCHANGED <<faults, calls>>

\* The rate limiter's timer fires (line 980 resumes)
WakeRateLimit(p) ==
    /\ proc[p].pc = "sleepRL"
    /\ proc[p].wake = 0
    /\ Install(trackRequest(Cur, p))
    /\ UNCHANGED <<faults, calls>>

Jitters == {0, 499}
Kinds == {"200", "429", "4xx", "5xx", "net", "other"}

\* The page request is answered or fails.  A busy domain answers 429 every
\* time; elsewhere the failures of a run are bounded.
PageResponse(p) ==
    /\ proc[p].pc = "req"
    /\ \E kind \in Kinds, jitter \in Jitters :
         /\ (~shouldRetry(kind, proc[p].retryCount)) => jitter = 0
         /\ IF hostname(proc[p].url) \in busy
            THEN kind = "429" /\ UNCHANGED faults
            ELSE /\ kind = "429" => hist[p].n429 < Max429
                 /\ IF kind = "200" THEN UNCHANGED faults
                    ELSE faults > 0 /\ faults' = faults - 1
         /\ Install(pageResponse(Cur, p, kind, jitter))
    /\ UNCHANGED calls

\* The 429 backoff is over: return this.fetch(url, skipRobotsCheck, retryCount)
Wake429(p) ==
    /\ proc[p].pc = "sleep429"
    /\ proc[p].wake = 0
    /\ Install(fetch(Cur, p))
    /\ UNCHANGED <<faults, calls>>

\* The retry delay is over: return this.fetch(url, skipRobotsCheck, retryCount + 1)
WakeRetry(p) ==
    /\ proc[p].pc = "sleepRetry"
    /\ proc[p].wake = 0
    /\ Install(fetch([Cur EXCEPT !.proc[p].retryCount = @ + 1], p))
    /\ UNCHANGED <<faults, calls>>

\* Time passes.  A timer is never skipped over (d is at most every running
\* timer) and a due timer's continuation runs before the clock moves on.  The
\* clock moves to the
\* next timer; with no timer running and no request in flight it moves by the
\* small step while some domain's last request is recent, past the hour window,
\* or past the cache TTL.
Timers == {p \in Procs : proc[p].pc \in {"sleepRL", "sleep429", "sleepRetry"}}
Sleepers == {p \in Timers : proc[p].wake > 0}
InFlight == {p \in Procs : proc[p].pc \in {"robots", "req"}}
Recent == \E d \in Domains : rateLimits[d].present /\ rateLimits[d].lastAge < MaxAge

TickSteps ==
    {proc[p].wake : p \in Sleepers}
    \cup (IF Recent /\ Sleepers = {} /\ InFlight = {} THEN {TickStep} ELSE {})
    \cup (IF InFlight = {} /\ (\E d \in Domains : rateLimits[d].present
                                                 /\ rateLimits[d].hourAge <= HOUR_MS)
          THEN {HourCap} ELSE {})
    \cup (IF InFlight = {} /\ (\E u \in Urls : cacheFresh(Cur, u))
          THEN {CACHE_TTL_MS} ELSE {})

Tick ==
    \E d \in TickSteps :
      /\ \A p \in Timers : d <= proc[p].wake
      /\ rateLimits' = [x \in Domains |->
                          IF rateLimits[x].present
                          THEN [rateLimits[x] EXCEPT !.lastAge = Cap(@ + d, MaxAge),
                                                     !.hourAge = Cap(@ + d, HourCap)]
                          ELSE rateLimits[x]]
      /\ htmlCache' = [u \in Urls |-> IF htmlCache[u] = NoEntry THEN NoEntry
                                      ELSE Cap(htmlCache[u] + d, CACHE_TTL_MS)]
      /\ proc' = [p \in Procs |-> IF p \in Sleepers
                                  THEN [proc[p] EXCEPT !.wake = @ - d]
                                  ELSE proc[p]]
      /\ obs' = [x \in Domains |-> [obs[x] EXCEPT !.sinceSent = Cap(@ + d, MaxAge)]]
      /\ UNCHANGED <<robotsCache, config, busy, faults, calls, hist, pureCall>>

\* No function outside the scraper is being called
NoCall == [fn |-> "none"]

ScraperState ==
    /\ rateLimits = [d \in Domains |-> NoLimit]
    /\ robotsCache = [d \in Domains |-> FALSE]
    /\ htmlCache = [u \in Urls |-> NoEntry]
    /\ proc = [p \in Procs |-> Outside("idle", "none", 0)]
    /\ hist = [p \in Procs |-> NewHist]
    /\ obs = [d \in Domains |-> NewObs]

InitState ==
    /\ ScraperState
    /\ pureCall = NoCall

Init ==
    /\ InitState
    /\ config = [maxRequestsPerHour |-> SmallCeiling]
    /\ busy = {}
    /\ calls = MaxCalls
    /\ faults = MaxFaults

Next ==
    \/ \E p \in Procs : Start(p)
    \/ \E p \in Procs : RobotsResponse(p)
    \/ \E p \in Procs : WakeRateLimit(p)
    \/ \E p \in Procs : PageResponse(p)
    \/ \E p \in Procs : Wake429(p)
    \/ \E p \in Procs : WakeRetry(p)
    \/ Tick

\* Concurrent callers, a small hourly ceiling, few failures
Spec == Init /\ [][Next]_vars

\* One call that may see every page request fail
RetryInit ==
    /\ InitState
    /\ config = [maxRequestsPerHour |-> DefaultMaxRequestsPerHour]
    /\ busy = {}
    /\ calls = 1
    /\ faults = MAX_RETRIES + Max429 + 1

RetrySpec == RetryInit /\ [][Next]_vars

\* One call to a domain that answers every page request with 429, under the
\* default configuration.  Its backoff is at least 10 s, above every delay of
\* the rate limiter, and no answer is a transient error: WakeRateLimit and
\* WakeRetry are never enabled.  The event loop runs every continuation that
\* is ready, every request is answered or times out, and time passes.
LiveInit ==
    /\ InitState
    /\ config = [maxRequestsPerHour |-> DefaultMaxRequestsPerHour]
    /\ busy = Domains
    /\ calls = 1
    /\ faults = 0

LiveNext ==
    \/ \E p \in Procs : Start(p)
    \/ \E p \in Procs : RobotsResponse(p)
    \/ \E p \in Procs : PageResponse(p)
    \/ \E p \in Procs : Wake429(p)
    \/ Tick

LiveSpec ==
    /\ LiveInit
    /\ [][LiveNext]_vars
    /\ WF_vars(Tick)
    /\ \A p \in Procs : /\ WF_vars(RobotsResponse(p))
                        /\ WF_vars(PageResponse(p))
                        /\ WF_vars(Wake429(p))

----------------------------------------------------------------------------
\* Claims

\* Caller p's page request leaves in this step
Sends(p) == proc[p].pc # "req" /\ proc'[p].pc = "req"

\* Caller p's robots.txt request leaves in this step
RobotsSends(p) == proc[p].pc # "robots" /\ proc'[p].pc = "robots"

\* Caller p's fetch returns the cached body in this step
Hits(p) == proc'[p] # proc[p] /\ proc'[p].pc = "done" /\ proc'[p].outcome = "cached"

\* C1: two page requests to the same domain are never closer together than
\* the configured minimum delay.
C1_MinDelay ==
    [][\A p \in Procs : Sends(p) =>
         obs[hostname(proc'[p].url)].sinceSent >= minDelayBetweenRequests]_vars

\* C2: the delay check and the update of lastRequest are one indivisible step:
\* no caller sends on a delay check whose lastRequest another caller has
\* overwritten in between (two callers passing against the same lastRequest).
C2_Atomic ==
    [][\A p \in Procs : Sends(p) => ~hist[p].stale]_vars

\* C3: a domain's hourly count never exceeds the configured ceiling.
C3_Ceiling ==
    \A d \in Domains : rateLimits[d].requestCount <= config.maxRequestsPerHour

HitFrame(p) ==
    /\ proc[p].pc \notin {"sleepRL", "req"}
    /\ \A d \in Domains :
         /\ rateLimits'[d].lastAge = rateLimits[d].lastAge
         /\ rateLimits'[d].requestCount = rateLimits[d].requestCount
         /\ obs'[d] = obs[d]

\* C5 (as claimed): a fetch of a URL whose body is cached and below the TTL
\* returns it with no network call at all and without the rate limiter.
C5_NoNetwork ==
    [][\A p \in Procs : Hits(p) =>
         /\ HitFrame(p)
         /\ ~(proc[p].pc = "robots" /\ hist[p].fresh)]_vars

\* C5 (amended): a fetch that reaches its cache check with a body below the TTL
\* returns it without requesting the URL and without the rate limiter; only
\* the robots check before it may have sent a robots.txt request.
C5_CacheBypass ==
    [][\A p \in Procs : Hits(p) => HitFrame(p)]_vars

C5_Witness ==
    \E p \in Procs : /\ proc[p].pc = "done" /\ proc[p].outcome = "cached"
                     /\ rateLimits[hostname(proc[p].url)].present

\* C6: a call retries transient failures at most MAX_RETRIES times: it never
\* sleeps for a retry at retryCount = MAX_RETRIES, and without 429 answers it
\* sends at most MAX_RETRIES + 1 page requests.
C6_RetryCeiling ==
    \A p \in Procs :
        /\ proc[p].retryCount <= MAX_RETRIES
        /\ proc[p].pc = "sleepRetry" => proc[p].retryCount < MAX_RETRIES
        /\ hist[p].n429 = 0 => hist[p].attempts <= MAX_RETRIES + 1

C6_Witness ==
    \E p \in Procs : /\ proc[p].pc = "req" /\ proc[p].retryCount = MAX_RETRIES
                     /\ hist[p].attempts = MAX_RETRIES + 1 /\ hist[p].n429 = 0

\* C7: every fetch call whose page request has left comes to an end.
C7_Terminates ==
    \A p \in Procs : (proc[p].pc = "req") ~> (proc[p].pc = "done")

\* C8: after a 4xx answer other than 429 the call is over, with the HTTP error.
C8_TerminalNotRetried ==
    \A p \in Procs : hist[p].terminal =>
        proc[p].pc = "done" /\ proc[p].outcome = "httpError"

C8_Witness ==
    \E p \in Procs : hist[p].terminal /\ proc[p].pc = "done"

\* C9: once the robots.txt rules are cached, a page request leaves only when
\* the larger of the minimum delay and the Crawl-delay has passed since the
\* previous page request to the domain (which left with the rules cached).
C9_CrawlDelay ==
    [][\A p \in Procs :
         LET d == hostname(proc'[p].url)
         IN (Sends(p) /\ obs[d].sentCached) =>
              obs[d].sinceSent >= Max(minDelayBetweenRequests, getCrawlDelay(d) * 1000)]_vars

\* C10 (as claimed): a domain's robots.txt is requested at most once.
C10_Once ==
    [][\A p \in Procs : RobotsSends(p) =>
         ~obs[hostname(proc'[p].url)].robotsRequested]_vars

\* C10 (amended): no robots.txt request is sent for a domain whose rules are
\* cached.
C10_NotWhenCached ==
    [][\A p \in Procs : RobotsSends(p) =>
         ~robotsCache[hostname(proc'[p].url)]]_vars

C10_Witness ==
    \E p \in Procs : /\ robotsCache[hostname(proc[p].url)]
                     /\ ~proc[p].skip /\ proc[p].pc = "req"
                     /\ ~hist[p].robotsReq /\ obs[hostname(proc[p].url)].robotsRequested

\* C11: when the robots.txt request of a fetch fails or is answered with a
\* status other than 200 (no rules get cached for the domain), the fetch is
\* not rejected by the robots check: it goes on to the cache check, the rate
\* limiter and the page request.
C11_FailOpen ==
    [][\A p \in Procs :
         (proc[p].pc = "robots" /\ proc'[p].pc # "robots"
            /\ ~robotsCache'[hostname(proc[p].url)])
         => /\ proc'[p].outcome # "policyError"
            /\ \/ proc'[p].pc \in {"req", "sleepRL"}
               \/ proc'[p].pc = "done" /\ proc'[p].outcome \in {"cached", "rateLimitError"}]_vars

C11_Witness ==
    \E p \in Procs : /\ proc[p].pc = "req" /\ ~proc[p].skip /\ proc[p].url = "u2"
                     /\ hist[p].robotsReq /\ ~robotsCache[hostname(proc[p].url)]

----------------------------------------------------------------------------
\* Search aggregation, src/search/index.ts
\*
\* A URL string is the sequence of its lexical units: words of letters and
\* single punctuation characters.  The patterns of deduplicateResults have
\* their literal boundaries on unit boundaries, so they act on units as they
\* act on characters.

MaxLen == 4            \* longest result list given to deduplicateResults

\* The scraper is at rest while such a function is called
ScraperVars == <<rateLimits, robotsCache, htmlCache, proc, config, busy, faults, calls,
                 hist, obs>>

Quiet ==
    /\ ScraperState
    /\ config = [maxRequestsPerHour |-> DefaultMaxRequestsPerHour]
    /\ busy = {}
    /\ calls = 0
    /\ faults = 0

\* String.prototype.toLowerCase on one unit
lowerUnit(t) ==
    CASE t = "HTTP" -> "http"
      [] t = "HTTPS" -> "https"
      [] t = "Www" -> "www"
      [] t = "X" -> "x"
      [] t = "Y" -> "y"
      [] t = "A" -> "a"
      [] t = "B" -> "b"
      [] OTHER -> t

\* (mutant) the URL keeps its letter case
toLowerCase_Keep(str) == str

\* result.url.toLowerCase(), line 33
toLowerCase(str) == [i \in 1..Len(str) |-> lowerUnit(str[i])]

\* .replace(/\/$/, ''), line 34
stripTrailingSlash(str) ==
    IF Len(str) > 0 /\ str[Len(str)] = "/" THEN SubSeq(str, 1, Len(str) - 1) ELSE str

\* .replace(/^https?:\/\/(www\.)?/, ''), line 35
stripScheme(str) ==
    IF Len(str) >= 4 /\ str[1] \in {"http", "https"}
       /\ str[2] = ":" /\ str[3] = "/" /\ str[4] = "/"
    THEN LET rest == SubSeq(str, 5, Len(str))
         IN IF Len(rest) >= 2 /\ rest[1] = "www" /\ rest[2] = "."
            THEN SubSeq(rest, 3, Len(rest))
            ELSE rest
    ELSE str

\* deduplicateResults, lines 32-35: normalizedUrl
normalizedUrl(url) == stripScheme(stripTrailingSlash(toLowerCase(url)))

\* (mutant) the set of seen keys is never consulted
seenHas_Never(seen, key) == FALSE

\* seen.has(normalizedUrl), line 37
seenHas(seen, key) == key \in seen

\* results.filter(...), lines 30-42, from element i on
RECURSIVE filterFrom(_, _, _)
filterFrom(results, i, seen) ==
    IF i > Len(results) THEN <<>>
    ELSE LET key == normalizedUrl(results[i].url)
         IN IF seenHas(seen, key)
            THEN filterFrom(results, i + 1, seen)
            ELSE <<results[i]>> \o filterFrom(results, i + 1, seen \cup {key})

\* deduplicateResults, lines 28-43
deduplicateResults(results) == filterFrom(results, 1, {})

\* An absolute http(s) URL by its parts, and its text
UrlParts ==
    [scheme : {"http", "https", "HTTP"}, www : {"", "www", "Www"},
     host : {"x", "X", "y"}, path : {"", "a", "A", "b"}, slash : BOOLEAN]

urlText(u) ==
    <<u.scheme, ":", "/", "/">>
    \o (IF u.www = "" THEN <<>> ELSE <<u.www, ".">>)
    \o <<u.host, ".", "com">>
    \o (IF u.path = "" THEN <<>> ELSE <<"/", u.path>>)
    \o (IF u.slash THEN <<"/">> ELSE <<>>)

\* Two URLs differ at most in letter case, scheme, leading www. and trailing slash
sameButForm(u, v) ==
    /\ lowerUnit(u.host) = lowerUnit(v.host)
    /\ lowerUnit(u.path) = lowerUnit(v.path)

SearchResultOf(u, source) == [url |-> urlText(u), source |-> source]

\* deduplicateResults is called on two results from different adapters
NormInit ==
    /\ Quiet
    /\ pureCall \in {[fn |-> "deduplicateResults", u |-> u, v |-> v,
                      results |-> <<SearchResultOf(u, "google"), SearchResultOf(v, "devto")>>,
                      returned |-> FALSE, value |-> <<>>] : u \in UrlParts, v \in UrlParts}

DedupeCall ==
    /\ pureCall.fn = "deduplicateResults"
    /\ ~pureCall.returned
    /\ pureCall' = [pureCall EXCEPT !.returned = TRUE,
                                    !.value = deduplicateResults(pureCall.results)]
    /\ UNCHANGED ScraperVars

NormNext == DedupeCall

NormSpec == NormInit /\ [][NormNext]_vars

\* C15: two absolute http(s) URLs that differ only in letter case, scheme,
\* leading www. and trailing slash get the same deduplication key, the key of
\* HTTP://Www.X.com/a/ is that of http://x.com/a, and of two such results only
\* the first survives deduplication.
C15_SameKey ==
    /\ normalizedUrl(<<"HTTP", ":", "/", "/", "Www", ".", "X", ".", "com", "/", "a", "/">>)
         = normalizedUrl(<<"http", ":", "/", "/", "x", ".", "com", "/", "a">>)
    /\ (pureCall.fn = "deduplicateResults" /\ sameButForm(pureCall.u, pureCall.v)) =>
         /\ normalizedUrl(urlText(pureCall.u)) = normalizedUrl(urlText(pureCall.v))
         /\ pureCall.returned => pureCall.value = <<pureCall.results[1]>>

C15_Witness ==
    /\ pureCall.fn = "deduplicateResults" /\ pureCall.returned
    /\ pureCall.u = [scheme |-> "HTTP", www |-> "Www", host |-> "X", path |-> "a", slash |-> TRUE]
    /\ pureCall.v = [scheme |-> "http", www |-> "", host |-> "x", path |-> "a", slash |-> FALSE]
    /\ Len(pureCall.value) = 1

\* Results that adapters return: two pages, each under two forms of its URL
ResultPool ==
    {SearchResultOf([scheme |-> sc, www |-> w, host |-> "x", path |-> pa, slash |-> FALSE], src) :
       sc \in {"https"}, w \in {"", "www"}, pa \in {"a", "b"}, src \in {"google", "devto"}}

RECURSIVE ListsUpTo(_, _)
ListsUpTo(pool, n) ==
    IF n = 0 THEN {<<>>}
    ELSE LET shorter == ListsUpTo(pool, n - 1)
         IN shorter \cup {Append(l, r) : l \in {x \in shorter : Len(x) = n - 1}, r \in pool}

\* deduplicateResults is called on a list of results
DedupeInit ==
    /\ Quiet
    /\ pureCall \in {[fn |-> "deduplicateResults", results |-> l,
                      returned |-> FALSE, value |-> <<>>] : l \in ListsUpTo(ResultPool, MaxLen)}

DedupeNext == DedupeCall

DedupeSpec == DedupeInit /\ [][DedupeNext]_vars

\* The positions of a list that hold the first occurrence of their key
firstSeen(l) ==
    {i \in 1..Len(l) : \A j \in 1..(i - 1) : normalizedUrl(l[j].url) # normalizedUrl(l[i].url)}

\* The k-th smallest position of a set of positions
nthOf(I, k) == CHOOSE i \in I : Cardinality({j \in I : j <= i}) = k

\* C12: deduplicateResults(L) is the list of the first occurrences of the
\* normalized URLs of L, in the order of L (so each normalized URL appears once
\* and a later duplicate is dropped whatever adapter it came from), and
\* deduplicating it again changes nothing.
C12_Dedupe ==
    (pureCall.fn = "deduplicateResults" /\ pureCall.returned) =>
        LET l == pureCall.results
            out == pureCall.value
        IN /\ Len(out) = Cardinality(firstSeen(l))
           /\ \A k \in 1..Len(out) : out[k] = l[nthOf(firstSeen(l), k)]
           /\ \A a, b \in 1..Len(out) :
                normalizedUrl(out[a].url) = normalizedUrl(out[b].url) => a = b
           /\ deduplicateResults(out) = out

C12_Witness ==
    /\ pureCall.fn = "deduplicateResults" /\ pureCall.returned
    /\ Len(pureCall.results) = MaxLen /\ Len(pureCall.value) = 2
    /\ pureCall.results[1].source = "google" /\ pureCall.results[2].source = "devto"
    /\ normalizedUrl(pureCall.results[1].url) = normalizedUrl(pureCall.results[2].url)
    /\ pureCall.results[1].url # pureCall.results[2].url

----------------------------------------------------------------------------
\* search, searchByCategory, comprehensiveSearch, src/search/index.ts
\*
\* Promise.allSettled hands the outcomes over in the order of the promises,
\* whatever the order in which the adapters settle, so a call is a function
\* of the outcome of each adapter it dispatches.

MaxLimit == 3          \* largest options.limit given
NumQueries == 2        \* queries of a category of SEARCH_QUERIES
NumCategories == 2     \* categories of SEARCH_QUERIES

\* options.limit is not given
Undefined == -1

\* a || b on numbers: b when a is undefined or 0
orElse(a, b) == IF a = Undefined \/ a = 0 THEN b ELSE a

\* a destructuring default: b when a is undefined
defaultTo(a, b) == IF a = Undefined THEN b ELSE a

\* Math.ceil(a / b)
ceilDiv(a, b) == (a + b - 1) \div b

\* Array.prototype.slice(0, n)
slice(list, n) == SubSeq(list, 1, Min(n, Len(list)))

RECURSIVE flatten(_)
flatten(lists) == IF lists = <<>> THEN <<>> ELSE Head(lists) \o flatten(Tail(lists))

Adapters == <<"google", "bing", "duckduckgo", "devto", "hackernews">>

Fulfilled(list) == [status |-> "fulfilled", value |-> list]
Rejected == [status |-> "rejected", value |-> <<>>]

PageA == [scheme |-> "https", www |-> "", host |-> "x", path |-> "a", slash |-> FALSE]
PageAwww == [scheme |-> "http", www |-> "www", host |-> "x", path |-> "a", slash |-> TRUE]
PageB == [scheme |-> "https", www |-> "", host |-> "x", path |-> "b", slash |-> FALSE]
PageC == [scheme |-> "https", www |-> "", host |-> "y", path |-> "", slash |-> FALSE]

\* What one adapter call can come to
Outcomes ==
    {Rejected, Fulfilled(<<>>),
     Fulfilled(<<SearchResultOf(PageA, "a1"), SearchResultOf(PageB, "a1")>>),
     Fulfilled(<<SearchResultOf(PageAwww, "a2"), SearchResultOf(PageC, "a2")>>)}

\* search, lines 95-120: the adapters dispatched, in the order of searchPromises
dispatched(engines, configured) ==
    SelectSeq(Adapters, LAMBDA a : /\ ("all" \in engines \/ a \in engines)
                                   /\ (a \in {"google", "bing"} => a \in configured))

\* (mutant) Promise.all: the first rejection rejects the barrier
allSettled_All(outcomes) ==
    IF \E i \in 1..Len(outcomes) : outcomes[i].status = "rejected"
    THEN [rejected |-> TRUE, results |-> <<>>]
    ELSE [rejected |-> FALSE, results |-> outcomes]

\* Promise.allSettled(searchPromises), line 123
allSettled(outcomes) == [rejected |-> FALSE, results |-> outcomes]

\* search, lines 125-131: the fulfilled values, in order
RECURSIVE collect(_)
collect(settled) ==
    IF settled = <<>> THEN <<>>
    ELSE (IF Head(settled).status = "fulfilled" THEN Head(settled).value ELSE <<>>)
         \o collect(Tail(settled))

Returns(list) == [threw |-> FALSE, value |-> list]
Throws == [threw |-> TRUE, value |-> <<>>]

\* search, lines 74-134.  sourceResults: what customCrawl.searchSite returns for
\* each of options.sources (it catches its own failures); out: the outcome of
\* each adapter
search(limitOpt, engines, configured, sourceResults, out) ==
    LET limit == defaultTo(limitOpt, 50)
    IN IF Len(sourceResults) > 0
       THEN Returns(slice(deduplicateResults(flatten(sourceResults)), limit))
       ELSE LET promises == dispatched(engines, configured)
                settled == allSettled([i \in 1..Len(promises) |-> out[promises[i]]])
            IN IF settled.rejected THEN Throws
               ELSE Returns(slice(deduplicateResults(collect(settled.results)), limit))

\* The loop of searchByCategory, lines 147-159, from query i on: the results
\* pushed, or the rejection of an awaited search
RECURSIVE categoryLoop(_, _, _, _, _)
categoryLoop(limitPerQuery, engines, configured, outs, i) ==
    IF i > Len(outs) THEN Returns(<<>>)
    ELSE LET queryResults == search(limitPerQuery, engines, configured, <<>>, outs[i])
             rest == categoryLoop(limitPerQuery, engines, configured, outs, i + 1)
         IN IF queryResults.threw \/ rest.threw THEN Throws
            ELSE Returns(queryResults.value \o rest.value)

\* searchByCategory, lines 139-162.  outs: per query, the outcome of each adapter
searchByCategory(limitOpt, engines, configured, outs) ==
    LET limitPerQuery == ceilDiv(orElse(limitOpt, 50), Len(outs))
        results == categoryLoop(limitPerQuery, engines, configured, outs, 1)
    IN IF results.threw THEN Throws
       ELSE Returns(slice(deduplicateResults(results.value), orElse(limitOpt, 100)))

\* The loop of comprehensiveSearch, lines 174-185, from category i on
RECURSIVE comprehensiveLoop(_, _, _, _, _)
comprehensiveLoop(limitPerCategory, engines, configured, outss, i) ==
    IF i > Len(outss) THEN Returns(<<>>)
    ELSE LET categoryResults == searchByCategory(limitPerCategory, engines, configured, outss[i])
             rest == comprehensiveLoop(limitPerCategory, engines, configured, outss, i + 1)
         IN IF categoryResults.threw \/ rest.threw THEN Throws
            ELSE Returns(categoryResults.value \o rest.value)

\* comprehensiveSearch, lines 167-188.  outss: per category and query, the
\* outcome of each adapter
comprehensiveSearch(limitOpt, engines, configured, outss) ==
    LET limitPerCategory == ceilDiv(orElse(limitOpt, 200), Len(outss))
        results == comprehensiveLoop(limitPerCategory, engines, configured, outss, 1)
    IN IF results.threw THEN Throws
       ELSE Returns(slice(deduplicateResults(results.value), orElse(limitOpt, 200)))

Limits == {Undefined} \cup 0..MaxLimit

\* The outcomes of the adapters that a call with these options dispatches
OutcomesFor(engines, configured) ==
    {out \in [{"google", "bing", "duckduckgo", "devto", "hackernews"} -> Outcomes] :
       \A a \in DOMAIN out :
         (\A i \in 1..Len(dispatched(engines, configured)) :
            dispatched(engines, configured)[i] # a) => out[a] = Rejected}

NewSearchCall(fn, limit, engines, configured, sourceResults, outs) ==
    [fn |-> fn, limit |-> limit, engines |-> engines, configured |-> configured,
     sourceResults |-> sourceResults, outs |-> outs,
     returned |-> FALSE, threw |-> FALSE, value |-> <<>>]

SearchInit ==
    /\ Quiet
    /\ \/ \E limit \in Limits, engines \in {{"all"}, {"google", "devto"}},
             configured \in SUBSET {"google", "bing"} :
            \E out \in OutcomesFor(engines, configured) :
              pureCall = NewSearchCall("search", limit, engines, configured, <<>>, out)
       \/ \E limit \in Limits, r1, r2 \in {o.value : o \in Outcomes \ {Rejected}} :
            pureCall = NewSearchCall("search", limit, {"all"}, {}, <<r1, r2>>,
                                     [a \in {"google", "bing", "duckduckgo", "devto", "hackernews"} |-> Rejected])
       \/ \E limit \in Limits :
            \E outs \in [1..NumQueries -> OutcomesFor({"devto"}, {})] :
              pureCall = NewSearchCall("searchByCategory", limit, {"devto"}, {}, <<>>, outs)
       \/ \E limit \in Limits :
            \E outss \in [1..NumCategories -> [1..NumQueries -> OutcomesFor({"devto"}, {})]] :
              pureCall = NewSearchCall("comprehensiveSearch", limit, {"devto"}, {}, <<>>, outss)

Settle(result) ==
    /\ pureCall' = [pureCall EXCEPT !.returned = TRUE, !.threw = result.threw,
                                    !.value = result.value]
    /\ UNCHANGED ScraperVars

SearchCall ==
    /\ pureCall.fn = "search" /\ ~pureCall.returned
    /\ Settle(search(pureCall.limit, pureCall.engines, pureCall.configured,
                     pureCall.sourceResults, pureCall.outs))

CategoryCall ==
    /\ pureCall.fn = "searchByCategory" /\ ~pureCall.returned
    /\ Settle(searchByCategory(pureCall.limit, pureCall.engines, pureCall.configured,
                               pureCall.outs))

ComprehensiveCall ==
    /\ pureCall.fn = "comprehensiveSearch" /\ ~pureCall.returned
    /\ Settle(comprehensiveSearch(pureCall.limit, pureCall.engines, pureCall.configured,
                                  pureCall.outs))

SearchNext == SearchCall \/ CategoryCall \/ ComprehensiveCall

SearchSpec == SearchInit /\ [][SearchNext]_vars

\* The adapters of a search call that fulfilled, in the order of dispatch
succeeded(engines, configured, out) ==
    SelectSeq(dispatched(engines, configured), LAMBDA a : out[a].status = "fulfilled")

\* C13: whatever subset of the dispatched adapters rejects, search returns
\* normally (and so do searchByCategory and comprehensiveSearch), with the
\* deduplicated, truncated results of the adapters that fulfilled, in the
\* order of dispatch: a rejected adapter contributes nothing.
C13_PartialFailure ==
    (pureCall.fn \in {"search", "searchByCategory", "comprehensiveSearch"}
       /\ pureCall.returned) =>
        /\ ~pureCall.threw
        /\ (pureCall.fn = "search" /\ pureCall.sourceResults = <<>>) =>
             LET ok == succeeded(pureCall.engines, pureCall.configured, pureCall.outs)
                 merged == flatten([i \in 1..Len(ok) |-> pureCall.outs[ok[i]].value])
             IN pureCall.value = slice(deduplicateResults(merged), defaultTo(pureCall.limit, 50))

C13_Witness ==
    /\ pureCall.fn = "search" /\ pureCall.returned /\ pureCall.sourceResults = <<>>
    /\ pureCall.engines = {"all"} /\ pureCall.configured = {"google", "bing"}
    /\ pureCall.outs["google"] = Rejected /\ pureCall.outs["devto"] = Rejected
    /\ pureCall.outs["bing"].status = "fulfilled"
    /\ Len(pureCall.value) = 3

\* What a returned call merged and deduplicated before it truncated
mergedResults ==
    CASE pureCall.fn = "search" /\ pureCall.sourceResults # <<>> ->
           deduplicateResults(flatten(pureCall.sourceResults))
      [] pureCall.fn = "search" /\ pureCall.sourceResults = <<>> ->
           LET ok == succeeded(pureCall.engines, pureCall.configured, pureCall.outs)
           IN deduplicateResults(flatten([i \in 1..Len(ok) |-> pureCall.outs[ok[i]].value]))
      [] pureCall.fn = "searchByCategory" ->
           deduplicateResults(
             categoryLoop(ceilDiv(orElse(pureCall.limit, 50), Len(pureCall.outs)),
                          pureCall.engines, pureCall.configured, pureCall.outs, 1).value)
      [] pureCall.fn = "comprehensiveSearch" ->
           deduplicateResults(
             comprehensiveLoop(ceilDiv(orElse(pureCall.limit, 200), Len(pureCall.outs)),
                               pureCall.engines, pureCall.configured, pureCall.outs, 1).value)

\* C14: search, searchByCategory and comprehensiveSearch return at most the
\* requested limit of results, and what they return is the leading part of the
\* merged, deduplicated results.
C14_Limit ==
    (pureCall.fn \in {"search", "searchByCategory", "comprehensiveSearch"}
       /\ pureCall.returned) =>
        /\ pureCall.limit # Undefined => Len(pureCall.value) <= pureCall.limit
        /\ Len(pureCall.value) <= Len(mergedResults)
        /\ pureCall.value = SubSeq(mergedResults, 1, Len(pureCall.value))

----------------------------------------------------------------------------
\* Scoring, src/scoring
\*
\* A text (title, fullText, bio, publication name) is the set of the phrases
\* it contains, in their original letter case; no phrase of the vocabulary is
\* part of another, so String.includes is membership after toLowerCase.  A
\* date is its age in months (getMonthsSince), NoDate when null.

NoDate == -1

lowerPhrase(ph) ==
    CASE ph = "Aligna" -> "aligna"
      [] ph = "ALIGN-A" -> "align-a"
      [] ph = "HireVue" -> "hirevue"
      [] ph = "Karat" -> "karat"
      [] ph = "LiveKit" -> "livekit"
      [] ph = "Voice AI Recruiting" -> "voice ai recruiting"
      [] ph = "AI Recruiter" -> "ai recruiter"
      [] ph = "Interview Automation" -> "interview automation"
      [] ph = "HR Tech" -> "hr tech"
      [] ph = "Hiring Automation" -> "hiring automation"
      [] ph = "Last Updated" -> "last updated"
      [] ph = "Updated: March 3, this year" -> "updated: march 3, this year"
      [] ph = "Updated: March 3, 2019" -> "updated: march 3, 2019"
      [] ph = "Leave a Comment" -> "leave a comment"
      [] ph = "Recruiting" -> "recruiting"
      [] ph = "Software" -> "software"
      [] ph = "Journalist" -> "journalist"
      [] ph = "TechCrunch" -> "techcrunch"
      [] ph = "Freelance" -> "freelance"
      [] ph = "Expensive" -> "expensive"
      [] ph = "Costly" -> "costly"
      [] ph = "Unreliable" -> "unreliable"
      [] ph = "Easy" -> "easy"
      [] ph = "Cost-Effective" -> "cost-effective"
      [] ph = "Limited" -> "limited"
      [] OTHER -> ph

\* text.toLowerCase()
lowerText(text) == {lowerPhrase(ph) : ph \in text}

\* text.includes(needle), on a lower-cased text
includes(text, needle) == needle \in text

\* (mutant) a cap that does not bind
atMost_Uncapped(score, cap) == score

\* Math.min(score, cap)
atMost(score, cap) == Min(score, cap)

\* relevance-scorer: the leading keywords of the three lists
PERFECT_KEYWORDS == <<"voice ai recruiting", "livekit">>
STRONG_KEYWORDS == <<"interview automation", "ai recruiter">>
MODERATE_KEYWORDS == <<"hr tech", "hiring automation">>

\* (mutant) a title match counts as a body match
RECURSIVE tierScan_TitleAsBody(_, _, _, _, _, _, _)
tierScan_TitleAsBody(keywords, title, text, titlePoints, bodyPoints, i, score) ==
    IF i > Len(keywords) THEN score
    ELSE tierScan_TitleAsBody(keywords, title, text, titlePoints, bodyPoints, i + 1,
                 IF includes(title, keywords[i]) \/ includes(text, keywords[i])
                 THEN Max(score, bodyPoints) ELSE score)

\* scoreTopicalRelevance, lines 58-66 (73-81, 88-96): one tier's loop, from
\* keyword i on; a title match ends the loop
RECURSIVE tierScan(_, _, _, _, _, _, _)
tierScan(keywords, title, text, titlePoints, bodyPoints, i, score) ==
    IF i > Len(keywords) THEN score
    ELSE IF includes(title, keywords[i]) THEN Max(score, titlePoints)
    ELSE tierScan(keywords, title, text, titlePoints, bodyPoints, i + 1,
                  IF includes(text, keywords[i]) THEN Max(score, bodyPoints) ELSE score)

RelevantTopics == {"voice-ai", "candidate-screening", "hr-tech", "interview-automation"}

\* scoreTopicalRelevance, lines 102-123: detected topics and their breadth
scoreTopics(detectedTopics, score) ==
    LET byTopic == IF "voice-ai" \in detectedTopics THEN Max(score, 15)
                   ELSE IF "interview-automation" \in detectedTopics THEN Max(score, 13)
                   ELSE IF "candidate-screening" \in detectedTopics THEN Max(score, 12)
                   ELSE IF "hr-tech" \in detectedTopics THEN Max(score, 8)
                   ELSE score
        breadth == Cardinality(detectedTopics \cap RelevantTopics)
    IN atMost(byTopic + (IF breadth >= 3 THEN 3 ELSE IF breadth >= 2 THEN 2 ELSE 0), 30)

\* scoreTopicalRelevance, lines 52-124
scoreTopicalRelevance(article) ==
    LET text == lowerText(article.fullText)
        title == lowerText(article.title)
        perfect == tierScan(PERFECT_KEYWORDS, title, text, 30, 25, 1, 0)
        strong == tierScan(STRONG_KEYWORDS, title, text, 22, 18, 1, perfect)
        moderate == tierScan(MODERATE_KEYWORDS, title, text, 15, 12, 1, strong)
    IN IF perfect >= 25 THEN atMost(perfect, 30)
       ELSE IF strong >= 18 THEN atMost(strong, 30)
       ELSE IF moderate >= 12 THEN atMost(moderate, 30)
       ELSE scoreTopics(article.detectedTopics, moderate)

\* quality-scorer, scoreWordCount with SCORING_CONFIG.wordCountThresholds
scoreWordCount(wordCount) ==
    IF wordCount >= 2500 THEN 8 ELSE IF wordCount >= 1800 THEN 7
    ELSE IF wordCount >= 1500 THEN 6 ELSE IF wordCount >= 1000 THEN 5
    ELSE IF wordCount >= 800 THEN 4 ELSE IF wordCount >= 500 THEN 3 ELSE 2

\* quality-scorer, scoreContentType with SCORING_CONFIG.contentTypeScores
scoreContentType(contentType) ==
    CASE contentType \in {"guide", "comparison"} -> 7
      [] contentType = "listicle" -> 6
      [] contentType \in {"case-study", "tutorial"} -> 5
      [] contentType = "news" -> 4
      [] OTHER -> 3

\* scoreArticleQuality
scoreArticleQuality(article) ==
    atMost(scoreWordCount(article.wordCount) + scoreContentType(article.contentType)
           + (IF article.mentionsProducts THEN 5 ELSE 0), 20)

\* scoreUpdateSignals, lines 37-82
scoreUpdateSignals(text) ==
    atMost((IF includes(text, "last updated") THEN 5 ELSE 0)
           + (IF includes(text, "updated: march 3, this year") THEN 5 ELSE 0)
           + (IF includes(text, "leave a comment") THEN 3 ELSE 0), 10)

\* scoreContentTypeForUpdate, lines 87-106
scoreContentTypeForUpdate(contentType) ==
    CASE contentType = "comparison" -> 9
      [] contentType = "listicle" -> 8
      [] contentType = "guide" -> 7
      [] contentType = "tutorial" -> 4
      [] contentType = "case-study" -> 2
      [] contentType = "news" -> 1
      [] contentType = "opinion" -> 2
      [] OTHER -> 3

\* scoreFreshness, lines 111-127
scoreFreshness(publishDate, lastUpdated) ==
    LET monthsSince == IF lastUpdated # NoDate THEN lastUpdated ELSE publishDate
    IN IF monthsSince = NoDate THEN 0
       ELSE IF monthsSince < 3 THEN 5 ELSE IF monthsSince < 6 THEN 4
       ELSE IF monthsSince < 12 THEN 3 ELSE IF monthsSince < 18 THEN 2
       ELSE IF monthsSince < 24 THEN 1 ELSE 0

\* (mutant) the penalty is not floored
penalized_NoFloor(score) == score - 10

\* scoreUpdateability, line 27
penalized(score) == Max(0, score - 10)

\* scoreUpdateability, lines 24-29: the penalty applies
isStale(article) ==
    article.publishDate # NoDate /\ article.publishDate > 36 /\ article.lastUpdated = NoDate

\* The sum of scoreUpdateability before penalty and cap, lines 15-21
updateabilitySum(article) ==
    scoreUpdateSignals(lowerText(article.fullText))
    + scoreContentTypeForUpdate(article.contentType)
    + scoreFreshness(article.publishDate, article.lastUpdated)

\* scoreUpdateability, lines 10-32
scoreUpdateability(article) ==
    atMost(IF isStale(article) THEN penalized(updateabilitySum(article))
           ELSE updateabilitySum(article), 20)

\* scoreAuthorCredibility, scoring/index.ts lines 14-70
scoreAuthorCredibility(author, article) ==
    LET bio == lowerText(author.bio)
        title == lowerText(author.title)
    IN atMost((IF author.isFreelance THEN 8 ELSE IF author.isEditor THEN 4 ELSE 6)
              + (IF includes(bio, "hr tech") \/ includes(bio, "recruiting")
                    \/ includes(title, "recruiting")
                 THEN 4
                 ELSE IF includes(bio, "software") THEN 3
                 ELSE IF includes(bio, "journalist") THEN 2 ELSE 0)
              + (IF includes(lowerText(article.publicationName), "techcrunch") THEN 3 ELSE 1),
              15)

\* (mutant) the product is never recognised in the text
mentionsAligna_Never(text) == FALSE

\* scoreCompetitiveGap, line 79
mentionsAligna(text) == includes(text, "aligna") \/ includes(text, "align-a")

\* ALIGNA.competitors, the leading names
Competitors == {"hirevue", "karat"}

\* scoreCompetitiveGap, lines 75-107
scoreCompetitiveGap(article) ==
    LET text == lowerText(article.fullText)
    IN IF mentionsAligna(text) THEN 0
       ELSE IF \E comp \in Competitors : includes(text, lowerPhrase(comp)) THEN 10
       ELSE IF article.contentType = "comparison" THEN 8
       ELSE IF article.mentionsProducts THEN 5
       ELSE IF article.contentType = "listicle" THEN 4
       ELSE 2

\* scoreReachability, lines 112-118
scoreReachability(author) ==
    IF author.publicEmail THEN 5 ELSE IF author.contactFormUrl THEN 4
    ELSE IF author.linkedInUrl THEN 3 ELSE IF author.twitterHandle THEN 2 ELSE 0

\* calculateScore, lines 123-139
calculateScore(article, author) ==
    LET breakdown == [topicalRelevance |-> scoreTopicalRelevance(article),
                      articleQuality |-> scoreArticleQuality(article),
                      updateability |-> scoreUpdateability(article),
                      authorCredibility |-> scoreAuthorCredibility(author, article),
                      competitiveGap |-> scoreCompetitiveGap(article),
                      reachability |-> scoreReachability(author)]
    IN [score |-> breakdown.topicalRelevance + breakdown.articleQuality
                  + breakdown.updateability + breakdown.authorCredibility
                  + breakdown.competitiveGap + breakdown.reachability,
        breakdown |-> breakdown]

ContentTypes == {"comparison", "listicle", "guide", "tutorial", "case-study", "news",
                 "opinion", "other"}

\* An article and an author with nothing to score
PlainArticle ==
    [title |-> {}, fullText |-> {}, detectedTopics |-> {}, contentType |-> "other",
     mentionsProducts |-> FALSE, wordCount |-> 0, publishDate |-> NoDate,
     lastUpdated |-> NoDate, publicationName |-> {}]

PlainAuthor ==
    [isFreelance |-> FALSE, isEditor |-> FALSE, bio |-> {}, title |-> {},
     publicEmail |-> FALSE, contactFormUrl |-> FALSE, linkedInUrl |-> FALSE,
     twitterHandle |-> FALSE]

NewScoreCall(article, author) ==
    [fn |-> "calculateScore", article |-> article, author |-> author,
     returned |-> FALSE, value |-> [score |-> 0, breakdown |-> <<>>]]

\* calculateScore(article, author) is called and returns
ScoreCall ==
    /\ pureCall.fn = "calculateScore"
    /\ ~pureCall.returned
    /\ pureCall' = [pureCall EXCEPT !.returned = TRUE,
                      !.value = calculateScore(pureCall.article, pureCall.author)]
    /\ UNCHANGED ScraperVars

ScoreNext == ScoreCall

\* Articles and authors across all six components
ScoreArticles ==
    {[PlainArticle EXCEPT !.title = ti, !.fullText = tx, !.detectedTopics = tp,
         !.contentType = ct, !.mentionsProducts = mp, !.wordCount = wc,
         !.publishDate = pd, !.lastUpdated = lu, !.publicationName = pn] :
       ti \in {{}, {"LiveKit"}},
       tx \in SUBSET {"Aligna", "HireVue", "Last Updated", "Updated: March 3, this year"},
       tp \in {{}, RelevantTopics},
       ct \in {"comparison", "news", "other"},
       mp \in BOOLEAN,
       wc \in {0, 2500},
       pd \in {NoDate, 1, 40},
       lu \in {NoDate},
       pn \in {{"TechCrunch"}, {"Blog"}}}

ScoreAuthors ==
    {[PlainAuthor EXCEPT !.isFreelance = fr, !.bio = bio, !.publicEmail = em] :
       fr \in BOOLEAN, bio \in {{}, {"Recruiting"}}, em \in BOOLEAN}

ScoreInit ==
    /\ Quiet
    /\ \E article \in ScoreArticles, author \in ScoreAuthors :
          pureCall = NewScoreCall(article, author)

ScoreSpec == ScoreInit /\ [][ScoreNext]_vars

\* C16: the total score is the sum of the six component scores, and the
\* components are bounded by 30 (topical relevance), 20 (article quality),
\* 20 (updateability), 15 (author credibility), 10 (competitive gap) and
\* 5 (reachability), none of them negative, so the total is within 0..100.
C16_Components ==
    (pureCall.fn = "calculateScore" /\ pureCall.returned) =>
        LET b == pureCall.value.breakdown
        IN /\ pureCall.value.score
                = b.topicalRelevance + b.articleQuality + b.updateability
                  + b.authorCredibility + b.competitiveGap + b.reachability
           /\ b.topicalRelevance \in 0..30
           /\ b.articleQuality \in 0..20
           /\ b.updateability \in 0..20
           /\ b.authorCredibility \in 0..15
           /\ b.competitiveGap \in 0..10
           /\ b.reachability \in 0..5
           /\ pureCall.value.score \in 0..100

\* An article whose updateability sum exceeds the cap and whose every
\* component is at its maximum
C16_Witness ==
    /\ pureCall.fn = "calculateScore" /\ pureCall.returned
    /\ updateabilitySum(pureCall.article) > 20
    /\ pureCall.value.score = 100

\* Articles that differ in what the competitive gap depends on
GapArticles ==
    {[PlainArticle EXCEPT !.fullText = tx, !.contentType = ct, !.mentionsProducts = mp] :
       tx \in SUBSET {"Aligna", "ALIGN-A", "HireVue", "Karat", "Hiring Automation"},
       ct \in ContentTypes,
       mp \in BOOLEAN}

GapInit ==
    /\ Quiet
    /\ \E article \in GapArticles : pureCall = NewScoreCall(article, PlainAuthor)

GapSpec == GapInit /\ [][ScoreNext]_vars

\* The article text names the product, in any letter case
namesProduct(article) ==
    article.fullText \cap {"Aligna", "ALIGN-A"} # {}

\* The article text names a known competitor
namesCompetitor(article) ==
    article.fullText \cap {"HireVue", "Karat"} # {}

\* C17: the competitive gap is 0 whenever the article text names the
\* product, whatever competitors it mentions; otherwise 10 when a known
\* competitor is named, else 8 for comparison content, else 5 when the
\* article mentions products, else 4 for a listicle, else 2.
C17_Gap ==
    (pureCall.fn = "calculateScore" /\ pureCall.returned) =>
        LET a == pureCall.article
        IN pureCall.value.breakdown.competitiveGap =
             IF namesProduct(a) THEN 0
             ELSE IF namesCompetitor(a) THEN 10
             ELSE IF a.contentType = "comparison" THEN 8
             ELSE IF a.mentionsProducts THEN 5
             ELSE IF a.contentType = "listicle" THEN 4
             ELSE 2

\* A comparison that names the product and a competitor has been scored
C17_Witness ==
    /\ pureCall.fn = "calculateScore" /\ pureCall.returned
    /\ namesProduct(pureCall.article) /\ namesCompetitor(pureCall.article)
    /\ pureCall.article.contentType = "comparison"
    /\ pureCall.value.breakdown.competitiveGap = 0

\* Articles that differ in what the updateability depends on; ages on both
\* sides of the 36-month limit
UpdateArticles ==
    {[PlainArticle EXCEPT !.fullText = tx, !.contentType = ct, !.publishDate = pd,
         !.lastUpdated = lu] :
       tx \in SUBSET {"Last Updated", "Updated: March 3, this year",
                      "Updated: March 3, 2019", "Leave a Comment"},
       ct \in ContentTypes,
       pd \in {NoDate, 2, 12, 36, 37, 40},
       lu \in {NoDate, 1, 40}}

UpdateInit ==
    /\ Quiet
    /\ \E article \in UpdateArticles : pureCall = NewScoreCall(article, PlainAuthor)

UpdateSpec == UpdateInit /\ [][ScoreNext]_vars

\* C19: for an article published more than 36 months ago and never updated,
\* the updateability is max(0, min(20, update signals + content-type bonus +
\* freshness) - 10), the penalty taken after the cap and floored at 0; a
\* 40-month-old, never-updated listicle scores less than its signals and its
\* listicle bonus add up to, and 0 when it has no update signals.
C19_Penalty ==
    (pureCall.fn = "calculateScore" /\ pureCall.returned) =>
        LET a == pureCall.article
            signals == scoreUpdateSignals(lowerText(a.fullText))
            sum == signals + scoreContentTypeForUpdate(a.contentType)
                   + scoreFreshness(a.publishDate, a.lastUpdated)
            updateability == pureCall.value.breakdown.updateability
        IN (a.publishDate # NoDate /\ a.publishDate > 36 /\ a.lastUpdated = NoDate) =>
              /\ updateability = Max(0, Min(20, sum) - 10)
              /\ (a.contentType = "listicle" /\ a.publishDate = 40) =>
                    /\ updateability < signals + 8
                    /\ signals = 0 => updateability = 0

\* A 40-month-old, never-updated listicle without update signals has been
\* scored
C19_Witness ==
    /\ pureCall.fn = "calculateScore" /\ pureCall.returned
    /\ pureCall.article.publishDate = 40 /\ pureCall.article.lastUpdated = NoDate
    /\ pureCall.article.contentType = "listicle"
    /\ scoreUpdateSignals(lowerText(pureCall.article.fullText)) = 0
    /\ pureCall.value.breakdown.updateability = 0

\* Articles that differ in what the topical relevance depends on
RelevanceArticles ==
    {[PlainArticle EXCEPT !.title = ti, !.fullText = tx, !.detectedTopics = tp] :
       ti \in SUBSET {"LiveKit", "AI Recruiter", "Interview Automation", "HR Tech"},
       tx \in SUBSET {"LiveKit", "Voice AI Recruiting", "AI Recruiter", "HR Tech",
                      "Hiring Automation"},
       tp \in SUBSET RelevantTopics}

RelevanceInit ==
    /\ Quiet
    /\ \E article \in RelevanceArticles : pureCall = NewScoreCall(article, PlainAuthor)

RelevanceSpec == RelevanceInit /\ [][ScoreNext]_vars

\* Some keyword of the list occurs in the text, in any letter case
matches(keywords, text) ==
    \E i \in 1..Len(keywords) : keywords[i] \in lowerText(text)

\* The score of the strongest keyword tier that matches, a title match
\* before a body match; 0 when no tier matches
tierPoints(article) ==
    IF matches(PERFECT_KEYWORDS, article.title) THEN 30
    ELSE IF matches(PERFECT_KEYWORDS, article.fullText) THEN 25
    ELSE IF matches(STRONG_KEYWORDS, article.title) THEN 22
    ELSE IF matches(STRONG_KEYWORDS, article.fullText) THEN 18
    ELSE IF matches(MODERATE_KEYWORDS, article.title) THEN 15
    ELSE IF matches(MODERATE_KEYWORDS, article.fullText) THEN 12
    ELSE 0

\* C20: the topical relevance is decided by the strongest keyword tier that
\* matches, a title match outranking a body match within the tier (30/25,
\* 22/18, 15/12); weaker tiers never lower that score, the detected topics
\* add at most 3 points to it, and the result is at most 30; an article that
\* matches a strong keyword and no perfect keyword scores within 18..24.
C20_Tiers ==
    (pureCall.fn = "calculateScore" /\ pureCall.returned) =>
        LET a == pureCall.article
            relevance == pureCall.value.breakdown.topicalRelevance
        IN /\ relevance <= 30
           /\ tierPoints(a) > 0 =>
                 /\ relevance >= tierPoints(a)
                 /\ relevance <= tierPoints(a) + 3
           /\ (/\ ~matches(PERFECT_KEYWORDS, a.title)
               /\ ~matches(PERFECT_KEYWORDS, a.fullText)
               /\ \/ matches(STRONG_KEYWORDS, a.title)
                  \/ matches(STRONG_KEYWORDS, a.fullText))
              => relevance \in 18..24

\* An article with a strong keyword in its title, a moderate keyword in its
\* body, no perfect keyword and three topic tags has been scored
C20_Witness ==
    /\ pureCall.fn = "calculateScore" /\ pureCall.returned
    /\ tierPoints(pureCall.article) = 22
    /\ matches(MODERATE_KEYWORDS, pureCall.article.fullText)
    /\ Cardinality(pureCall.article.detectedTopics) >= 3
    /\ pureCall.value.breakdown.topicalRelevance \in 22..24

----------------------------------------------------------------------------
\* Competitor sentiment, src/outreach/competitor-sentiment.ts
\*
\* A text is a sequence of words; the context window of extractContext is
\* counted in words.

MaxTextLen == 5
ContextWindow == 2

\* NEGATIVE_KEYWORDS and POSITIVE_KEYWORDS: aspects in the order of the
\* object's keys, each with leading keywords of its list
NEGATIVE_KEYWORDS ==
    <<[aspect |-> "cost", keywords |-> <<"expensive", "costly">>],
      [aspect |-> "usability", keywords |-> <<"unreliable">>],
      [aspect |-> "effectiveness", keywords |-> <<"unreliable">>],
      [aspect |-> "limitations", keywords |-> <<"limited">>]>>

POSITIVE_KEYWORDS ==
    <<[aspect |-> "cost", keywords |-> <<"cost-effective">>],
      [aspect |-> "experience", keywords |-> <<"easy">>],
      [aspect |-> "effectiveness", keywords |-> <<"effective">>]>>

\* text.toLowerCase(), word by word
lowerWords(text) == [i \in 1..Len(text) |-> lowerPhrase(text[i])]

\* The places where a regular expression \bkeyword\b matches inside a word:
\* a hyphen is a word boundary
boundedParts(word) ==
    IF word = "cost-effective" THEN {"cost-effective", "cost", "effective"} ELSE {word}

\* hasWord(text, word), lines 236-239
hasWord(context, word) == \E i \in 1..Len(context) : word \in boundedParts(context[i])

\* extractContext(text, keyword, windowSize, startIndex), lines 183-197, for
\* the occurrence at index: a window that does not reach the edge of the
\* text loses the word it cuts
extractContext(text, index) ==
    LET start == Max(1, index - ContextWindow)
        end == Min(Len(text), index + ContextWindow)
        from == IF start > 1 THEN start + 1 ELSE start
        to == IF end < Len(text) THEN end - 1 ELSE end
    IN SubSeq(text, from, to)

\* lines 221-232: the contexts of all mentions, joined
RECURSIVE joinContexts(_, _, _)
joinContexts(text, compLower, searchIndex) ==
    IF searchIndex > Len(text) THEN <<>>
    ELSE IF text[searchIndex] = compLower
         THEN extractContext(text, searchIndex) \o joinContexts(text, compLower, searchIndex + 1)
         ELSE joinContexts(text, compLower, searchIndex + 1)

\* keywords.filter(kw => hasWord(combinedContext, kw))
matchedKeywords(keywords, context) == SelectSeq(keywords, LAMBDA kw : hasWord(context, kw))

\* lines 241-265: one pass over the aspects of a vocabulary
RECURSIVE aspectsOf(_, _, _, _)
aspectsOf(vocabulary, sentiment, context, i) ==
    IF i > Len(vocabulary) THEN <<>>
    ELSE LET matched == matchedKeywords(vocabulary[i].keywords, context)
         IN (IF Len(matched) > 0
             THEN <<[aspect |-> vocabulary[i].aspect, sentiment |-> sentiment,
                     keywords |-> matched]>>
             ELSE <<>>) \o aspectsOf(vocabulary, sentiment, context, i + 1)

\* (mutant) the aspects of a sentiment are counted, not their keywords
RECURSIVE keywordCount_Aspects(_, _)
keywordCount_Aspects(aspects, sentiment) ==
    IF aspects = <<>> THEN 0
    ELSE (IF Head(aspects).sentiment = sentiment THEN 1 ELSE 0)
         + keywordCount_Aspects(Tail(aspects), sentiment)

\* lines 267-273: filter by sentiment, then sum the keyword counts
RECURSIVE keywordCount(_, _)
keywordCount(aspects, sentiment) ==
    IF aspects = <<>> THEN 0
    ELSE (IF Head(aspects).sentiment = sentiment THEN Len(Head(aspects).keywords) ELSE 0)
         + keywordCount(Tail(aspects), sentiment)

\* lines 275-288
decideSentiment(negativeKeywordCount, positiveKeywordCount) ==
    IF negativeKeywordCount >= 2 /\ positiveKeywordCount >= 2 THEN "mixed"
    ELSE IF negativeKeywordCount > positiveKeywordCount THEN "negative"
    ELSE IF positiveKeywordCount > negativeKeywordCount THEN "positive"
    ELSE IF negativeKeywordCount > 0 /\ positiveKeywordCount > 0 THEN "mixed"
    ELSE "neutral"

\* An angle of COMPETITOR_POSITIONING: the text written for a competitor and
\* one negative aspect, or the competitor's default text
angleFor(competitor, aspect) == [competitor |-> competitor, aspect |-> aspect]

\* COMPETITOR_POSITIONING, lines 85-170: the aspects each competitor has a
\* negativeAngles entry for; listed is FALSE for a name that is no key
COMPETITOR_POSITIONING(name) ==
    CASE name = "hirevue" ->
           [listed |-> TRUE, name |-> name,
            negativeAngles |-> {"cost", "experience", "usability", "effectiveness",
                                "limitations"}]
      [] name = "karat" ->
           [listed |-> TRUE, name |-> name, negativeAngles |-> {"cost", "limitations"}]
      [] OTHER -> [listed |-> FALSE, name |-> name, negativeAngles |-> {}]

\* normalizeCompetitorName, lines 175-177: lower case, spaces removed
normalizeCompetitorName(name) ==
    CASE lowerPhrase(name) = "modern hire" -> "modernhire"
      [] lowerPhrase(name) = "spark hire" -> "sparkhire"
      [] OTHER -> lowerPhrase(name)

\* lines 291-298: the entry under the lower-cased name, else under the
\* normalized name, else the fallback with no specific angle
positioningOf(competitor) ==
    IF COMPETITOR_POSITIONING(lowerPhrase(competitor)).listed
    THEN COMPETITOR_POSITIONING(lowerPhrase(competitor))
    ELSE IF COMPETITOR_POSITIONING(normalizeCompetitorName(competitor)).listed
    THEN COMPETITOR_POSITIONING(normalizeCompetitorName(competitor))
    ELSE [listed |-> FALSE, name |-> "", negativeAngles |-> {}]

\* aspects.filter(a => a.sentiment === 'negative'), line 302
negativeAspectsOf(aspects) == SelectSeq(aspects, LAMBDA a : a.sentiment = "negative")

\* (mutant) the last negative aspect decides
positioningAngleOf_Last(positioning, aspects) ==
    LET negativeAspects == negativeAspectsOf(aspects)
    IN IF Len(negativeAspects) > 0
          /\ negativeAspects[Len(negativeAspects)].aspect \in positioning.negativeAngles
       THEN angleFor(positioning.name, negativeAspects[Len(negativeAspects)].aspect)
       ELSE angleFor(positioning.name, "default")

\* lines 301-311: the default angle, replaced by the specific angle of the
\* first negative aspect when the competitor has one for it
positioningAngleOf(positioning, aspects) ==
    LET negativeAspects == negativeAspectsOf(aspects)
    IN IF Len(negativeAspects) > 0
          /\ negativeAspects[1].aspect \in positioning.negativeAngles
       THEN angleFor(positioning.name, negativeAspects[1].aspect)
       ELSE angleFor(positioning.name, "default")

\* analyzeCompetitorSentiment(text, competitor), lines 202-328, without the
\* gapOpportunity text of the result
analyzeCompetitorSentiment(text, competitor) ==
    LET compLower == lowerPhrase(competitor)
        textLower == lowerWords(text)
        mentioned == \E i \in 1..Len(textLower) : textLower[i] = compLower
        combinedContext == joinContexts(textLower, compLower, 1)
        aspects == aspectsOf(NEGATIVE_KEYWORDS, "negative", combinedContext, 1)
                   \o aspectsOf(POSITIVE_KEYWORDS, "positive", combinedContext, 1)
    IN IF ~mentioned
       THEN [competitor |-> competitor, mentioned |-> FALSE, sentiment |-> "neutral",
             aspects |-> <<>>, positioningAngle |-> angleFor("", "none"),
             confidence |-> "low"]
       ELSE [competitor |-> competitor, mentioned |-> TRUE,
             sentiment |-> decideSentiment(keywordCount(aspects, "negative"),
                                           keywordCount(aspects, "positive")),
             aspects |-> aspects,
             positioningAngle |-> positioningAngleOf(positioningOf(competitor), aspects),
             confidence |-> IF Len(aspects) > 0 THEN "high" ELSE "medium"]

TextWords == {"HireVue", "Expensive", "Costly", "Unreliable", "Easy", "Cost-Effective", "the"}

RECURSIVE TextsUpTo(_)
TextsUpTo(n) ==
    IF n = 0 THEN {<<>>}
    ELSE LET shorter == TextsUpTo(n - 1)
         IN shorter \cup {Append(t, w) : t \in {u \in shorter : Len(u) = n - 1}, w \in TextWords}

SentimentInit ==
    /\ Quiet
    /\ \E text \in TextsUpTo(MaxTextLen) :
          pureCall = [fn |-> "analyzeCompetitorSentiment", text |-> text,
                      competitor |-> "hirevue", returned |-> FALSE,
                      value |-> [competitor |-> "hirevue", mentioned |-> FALSE,
                                 sentiment |-> "neutral", aspects |-> <<>>,
                                 positioningAngle |-> angleFor("", "none"),
                                 confidence |-> "low"]]

\* analyzeCompetitorSentiment(text, competitor) is called and returns
SentimentCall ==
    /\ pureCall.fn = "analyzeCompetitorSentiment"
    /\ ~pureCall.returned
    /\ pureCall' = [pureCall EXCEPT !.returned = TRUE,
                      !.value = analyzeCompetitorSentiment(pureCall.text, pureCall.competitor)]
    /\ UNCHANGED ScraperVars

SentimentNext == SentimentCall

SentimentSpec == SentimentInit /\ [][SentimentNext]_vars

\* The first and last word inside the context window of a mention at m in a
\* text of n words
extractFrom(m, n) == IF m - ContextWindow > 1 THEN m - ContextWindow + 1 ELSE 1

extractTo(m, n) == IF m + ContextWindow < n THEN m + ContextWindow - 1 ELSE n

\* The keywords of a vocabulary that match, with word boundaries, in the
\* words within the context window of some mention of the competitor; one
\* entry per aspect that lists the keyword
contextMatches(vocabulary, text, competitor) ==
    LET near == {i \in 1..Len(text) :
                   \E m \in 1..Len(text) :
                      /\ lowerPhrase(text[m]) = competitor
                      /\ i \in extractFrom(m, Len(text))..extractTo(m, Len(text))}
    IN {<<a, k>> \in (1..Len(vocabulary)) \X (1..2) :
           /\ k <= Len(vocabulary[a].keywords)
           /\ \E i \in near :
                 vocabulary[a].keywords[k] \in boundedParts(lowerPhrase(text[i]))}

\* C18: for a mentioned competitor, with N the matched negative keywords
\* and P the matched positive keywords of its combined context, the
\* sentiment is mixed if N >= 2 and P >= 2, otherwise negative if N > P,
\* otherwise positive if P > N, otherwise mixed if N = P >= 1, otherwise
\* (no match of either kind) neutral.
C18_Sentiment ==
    (pureCall.fn = "analyzeCompetitorSentiment" /\ pureCall.returned
       /\ pureCall.value.mentioned) =>
        LET N == Cardinality(contextMatches(NEGATIVE_KEYWORDS, pureCall.text,
                                            pureCall.competitor))
            P == Cardinality(contextMatches(POSITIVE_KEYWORDS, pureCall.text,
                                            pureCall.competitor))
        IN pureCall.value.sentiment =
             IF N >= 2 /\ P >= 2 THEN "mixed"
             ELSE IF N > P THEN "negative"
             ELSE IF P > N THEN "positive"
             ELSE IF N = P /\ N >= 1 THEN "mixed"
             ELSE "neutral"

\* A text with two negative keywords of one aspect and one positive keyword
\* around the competitor's name has been analysed as negative
C18_Witness ==
    /\ pureCall.fn = "analyzeCompetitorSentiment" /\ pureCall.returned
    /\ pureCall.text = <<"Expensive", "Costly", "HireVue", "Easy">>
    /\ pureCall.value.sentiment = "negative"

----------------------------------------------------------------------------
\* Caller p enters fetch in this step
Enters(p) == proc[p].pc \in {"idle", "done"} /\ proc'[p].seq # proc[p].seq

----------------------------------------------------------------------------
\* Priority, src/scoring/index.ts

\* (mutant) the thresholds are exclusive
getPriority_Exclusive(score) ==
    IF score > 80 THEN "excellent" ELSE IF score > 60 THEN "strong"
    ELSE IF score > 40 THEN "moderate" ELSE IF score > 20 THEN "weak" ELSE "skip"

\* getPriority, lines 144-150
getPriority(score) ==
    IF score >= 80 THEN "excellent" ELSE IF score >= 60 THEN "strong"
    ELSE IF score >= 40 THEN "moderate" ELSE IF score >= 20 THEN "weak" ELSE "skip"

PriorityInit ==
    /\ Quiet
    /\ \E score \in 0..100 :
          pureCall = [fn |-> "getPriority", score |-> score, returned |-> FALSE,
                      value |-> "skip"]

\* getPriority(score) is called and returns
PriorityCall ==
    /\ pureCall.fn = "getPriority"
    /\ ~pureCall.returned
    /\ pureCall' = [pureCall EXCEPT !.returned = TRUE, !.value = getPriority(pureCall.score)]
    /\ UNCHANGED ScraperVars

PriorityNext == PriorityCall

PrioritySpec == PriorityInit /\ [][PriorityNext]_vars

\* The bands from the lowest to the highest
bandRank(priority) ==
    CASE priority = "skip" -> 0
      [] priority = "weak" -> 1
      [] priority = "moderate" -> 2
      [] priority = "strong" -> 3
      [] priority = "excellent" -> 4

\* C22: the priority is a step function of the total score that covers
\* 0..100 without gap or overlap: 80..100 excellent, 60..79 strong, 40..59
\* moderate, 20..39 weak, 0..19 skip; a higher score never gets a lower band.
C22_Bands ==
    (pureCall.fn = "getPriority" /\ pureCall.returned) =>
        LET score == pureCall.score
            priority == pureCall.value
        IN /\ priority = "excellent" <=> score \in 80..100
           /\ priority = "strong" <=> score \in 60..79
           /\ priority = "moderate" <=> score \in 40..59
           /\ priority = "weak" <=> score \in 20..39
           /\ priority = "skip" <=> score \in 0..19
           /\ \A lower \in 0..score : bandRank(getPriority(lower)) <= bandRank(priority)

\* A score on a band's lower edge has been given its band
C22_Witness ==
    /\ pureCall.fn = "getPriority" /\ pureCall.returned
    /\ pureCall.score = 60 /\ pureCall.value = "strong"

----------------------------------------------------------------------------
\* Author contact, src/search/parsers/author-extractor.ts
\*
\* A page is what the extractors find in its HTML: the phrases of the bio and
\* whether an e-mail address, a contact form, a LinkedIn link and a Twitter
\* handle are there.  A contact field is TRUE when it holds a value.

\* (mutant) LinkedIn is chosen for staff writers too
determineContactMethod_AnyLinkedIn(author) ==
    IF author.publicEmail THEN "email"
    ELSE IF author.contactFormUrl THEN "contact-form"
    ELSE IF author.linkedInUrl THEN "linkedin-dm"
    ELSE IF author.twitterHandle THEN "twitter-dm"
    ELSE "unknown"

\* determineContactMethod, lines 324-330
determineContactMethod(author) ==
    IF author.publicEmail THEN "email"
    ELSE IF author.contactFormUrl THEN "contact-form"
    ELSE IF author.linkedInUrl /\ author.isFreelance THEN "linkedin-dm"
    ELSE IF author.twitterHandle THEN "twitter-dm"
    ELSE "unknown"

\* extractAuthorFromHtml, lines 13-70
extractAuthorFromHtml(page) ==
    LET bioLower == lowerText(page.bio)
        author == [isFreelance |-> includes(bioLower, "freelance"),
                   isEditor |-> includes(bioLower, "editor"),
                   bio |-> page.bio, title |-> {},
                   publicEmail |-> page.email, contactFormUrl |-> page.form,
                   linkedInUrl |-> page.linkedin, twitterHandle |-> page.twitter,
                   bestContactMethod |-> "unknown"]
    IN [author EXCEPT !.bestContactMethod = determineContactMethod(author)]

\* enrichAuthorFromProfile, lines 372-410: the profile page fills the fields
\* that are still empty; when it cannot be fetched the author is returned
\* as it was
enrichAuthorFromProfile(author, profile) ==
    IF ~profile.fetched THEN author
    ELSE LET filled == [author EXCEPT
                          !.publicEmail = IF ~@ THEN profile.email ELSE @,
                          !.linkedInUrl = IF ~@ THEN profile.linkedin ELSE @,
                          !.twitterHandle = IF ~@ THEN profile.twitter ELSE @,
                          !.bio = IF @ = {} THEN profile.bio ELSE @]
         IN [filled EXCEPT !.bestContactMethod = determineContactMethod(filled)]

ArticlePages ==
    [bio : SUBSET {"Freelance", "Journalist"}, email : BOOLEAN, form : BOOLEAN,
     linkedin : BOOLEAN, twitter : BOOLEAN]

ProfilePages ==
    [fetched : {TRUE}, bio : {{}, {"Freelance"}}, email : BOOLEAN, linkedin : BOOLEAN,
     twitter : BOOLEAN]
    \cup {[fetched |-> FALSE, bio |-> {}, email |-> FALSE, linkedin |-> FALSE,
           twitter |-> FALSE]}

ContactInit ==
    /\ Quiet
    /\ \E page \in ArticlePages, profile \in ProfilePages :
          pureCall = [fn |-> "extractAuthorFromHtml", page |-> page, profile |-> profile,
                      returned |-> FALSE, enriched |-> FALSE,
                      author |-> extractAuthorFromHtml([bio |-> {}, email |-> FALSE,
                                    form |-> FALSE, linkedin |-> FALSE, twitter |-> FALSE]),
                      reachability |-> 0]

\* extractAuthorFromHtml(html, url) returns the author, who is then scored
ExtractAuthorCall ==
    /\ pureCall.fn = "extractAuthorFromHtml"
    /\ ~pureCall.returned
    /\ LET author == extractAuthorFromHtml(pureCall.page)
       IN pureCall' = [pureCall EXCEPT !.returned = TRUE, !.author = author,
                         !.reachability = scoreReachability(author)]
    /\ UNCHANGED ScraperVars

\* enrichAuthorFromProfile(author, authorPageUrl) returns, and the author is
\* scored again
EnrichAuthorCall ==
    /\ pureCall.fn = "extractAuthorFromHtml"
    /\ pureCall.returned /\ ~pureCall.enriched
    /\ LET author == enrichAuthorFromProfile(pureCall.author, pureCall.profile)
       IN pureCall' = [pureCall EXCEPT !.enriched = TRUE, !.author = author,
                         !.reachability = scoreReachability(author)]
    /\ UNCHANGED ScraperVars

ContactNext == ExtractAuthorCall \/ EnrichAuthorCall

ContactSpec == ContactInit /\ [][ContactNext]_vars

\* C21: the bestContactMethod of every author the extractor returns is the
\* choice made from the other fields in the order email, contact form,
\* LinkedIn (only for a freelance author), Twitter, unknown; whenever
\* publicEmail is set it is email and the reachability is 5, whatever other
\* contact fields are filled in.
C21_BestMethod ==
    (pureCall.fn = "extractAuthorFromHtml" /\ pureCall.returned) =>
        LET a == pureCall.author
        IN /\ a.bestContactMethod =
                CASE a.publicEmail -> "email"
                  [] ~a.publicEmail /\ a.contactFormUrl -> "contact-form"
                  [] ~a.publicEmail /\ ~a.contactFormUrl /\ a.linkedInUrl /\ a.isFreelance
                       -> "linkedin-dm"
                  [] ~a.publicEmail /\ ~a.contactFormUrl /\ ~(a.linkedInUrl /\ a.isFreelance)
                       /\ a.twitterHandle -> "twitter-dm"
                  [] OTHER -> "unknown"
           /\ a.publicEmail => a.bestContactMethod = "email" /\ pureCall.reachability = 5

\* An author whose e-mail address came from the profile page, with every
\* other contact field filled in, has been scored
C21_Witness ==
    /\ pureCall.fn = "extractAuthorFromHtml" /\ pureCall.enriched
    /\ ~pureCall.page.email /\ pureCall.author.publicEmail
    /\ pureCall.author.contactFormUrl /\ pureCall.author.linkedInUrl
    /\ pureCall.author.twitterHandle
    /\ pureCall.author.bestContactMethod = "email" /\ pureCall.reachability = 5

\* C30: the reachability agrees with bestContactMethod: it is 5, 4, 3, 2 or 0
\* exactly when bestContactMethod is email, contact-form, linkedin-dm,
\* twitter-dm or unknown.
C30_Agree ==
    (pureCall.fn = "extractAuthorFromHtml" /\ pureCall.returned) =>
        LET method == pureCall.author.bestContactMethod
            reachability == pureCall.reachability
        IN /\ reachability = 5 <=> method = "email"
           /\ reachability = 4 <=> method = "contact-form"
           /\ reachability = 3 <=> method = "linkedin-dm"
           /\ reachability = 2 <=> method = "twitter-dm"
           /\ reachability = 0 <=> method = "unknown"

----------------------------------------------------------------------------
\* Positioning angle, src/outreach/competitor-sentiment.ts

MaxAngleTextLen == 4

AngleWords == {"HireVue", "Karat", "Expensive", "Unreliable", "Limited", "Easy"}

RECURSIVE TextsOver(_, _)
TextsOver(words, n) ==
    IF n = 0 THEN {<<>>}
    ELSE LET shorter == TextsOver(words, n - 1)
         IN shorter \cup {Append(t, w) : t \in {u \in shorter : Len(u) = n - 1}, w \in words}

\* analyzeArticleCompetitors calls analyzeCompetitorSentiment for the names of
\* ALIGNA.competitors
AngleInit ==
    /\ Quiet
    /\ \E text \in TextsOver(AngleWords, MaxAngleTextLen), comp \in Competitors :
          pureCall = [fn |-> "analyzeCompetitorSentiment", text |-> text,
                      competitor |-> comp, returned |-> FALSE,
                      value |-> [competitor |-> comp, mentioned |-> FALSE,
                                 sentiment |-> "neutral", aspects |-> <<>>,
                                 positioningAngle |-> angleFor("", "none"),
                                 confidence |-> "low"]]

AngleSpec == AngleInit /\ [][SentimentNext]_vars

\* The aspects in the order of NEGATIVE_KEYWORDS that have a keyword within
\* the context window of a mention of the competitor
detectedNegative(text, competitor) ==
    {a \in 1..Len(NEGATIVE_KEYWORDS) :
       \E m \in contextMatches(NEGATIVE_KEYWORDS, text, competitor) : m[1] = a}

\* The aspects the table holds a specific angle for
specificAngles(competitor) ==
    CASE competitor = "hirevue" -> {"cost", "experience", "usability", "effectiveness",
                                    "limitations"}
      [] competitor = "karat" -> {"cost", "limitations"}
      [] OTHER -> {}

\* C27: for a mentioned competitor the positioning angle is the competitor's
\* specific angle for the first detected negative aspect, in the order cost,
\* experience, usability, effectiveness, support, limitations; the default
\* angle is used only when the competitor has no specific angle for that
\* aspect, is not in the table, or no negative aspect was detected.
C27_FirstAspect ==
    (pureCall.fn = "analyzeCompetitorSentiment" /\ pureCall.returned
       /\ pureCall.value.mentioned) =>
        LET detected == detectedNegative(pureCall.text, pureCall.competitor)
            first == NEGATIVE_KEYWORDS[CHOOSE a \in detected : \A b \in detected : a <= b].aspect
            angle == pureCall.value.positioningAngle
        IN /\ angle.competitor = pureCall.competitor
           /\ IF detected # {} /\ first \in specificAngles(pureCall.competitor)
              THEN angle.aspect = first
              ELSE angle.aspect = "default"

\* A text about Karat with cost and limitations detected has been given the
\* cost angle, and not the one for limitations
C27_Witness ==
    /\ pureCall.fn = "analyzeCompetitorSentiment" /\ pureCall.returned
    /\ pureCall.competitor = "karat"
    /\ Cardinality(detectedNegative(pureCall.text, "karat")) >= 2
    /\ pureCall.value.positioningAngle = angleFor("karat", "cost")

----------------------------------------------------------------------------
\* search with its adapter calls in flight, src/search/index.ts lines 94-134
\*
\* The adapter promises settle one by one in any order; search resumes from
\* Promise.allSettled when the last one has settled.

Pending == [status |-> "pending", value |-> <<>>]

\* (mutant) the outcomes are taken in the order of completion
settledResults_ByCompletion(settled, order) ==
    [k \in 1..Len(order) |-> settled[order[k]]]

\* Promise.allSettled, line 123: the outcomes in the order of searchPromises
settledResults(settled, order) == [i \in 1..Len(settled) |-> settled[i]]

RaceInit ==
    /\ Quiet
    /\ \E limit \in {Undefined, 2}, out \in OutcomesFor({"all"}, {"google"}) :
          pureCall = NewSearchCall("search", limit, {"all"}, {"google"}, <<>>, out)
                       @@ [settled |-> [i \in 1..Len(dispatched({"all"}, {"google"}))
                                          |-> Pending],
                           order |-> <<>>]

\* The promise at position i of searchPromises settles
AdapterSettles ==
    /\ pureCall.fn = "search" /\ ~pureCall.returned
    /\ \E i \in 1..Len(pureCall.settled) :
         /\ pureCall.settled[i] = Pending
         /\ pureCall' = [pureCall EXCEPT
                           !.settled[i] = pureCall.outs[dispatched(pureCall.engines,
                                                                  pureCall.configured)[i]],
                           !.order = Append(@, i)]
    /\ UNCHANGED ScraperVars

\* Every promise has settled: search resumes at line 125 and returns
SearchResumes ==
    /\ pureCall.fn = "search" /\ ~pureCall.returned
    /\ \A i \in 1..Len(pureCall.settled) : pureCall.settled[i] # Pending
    /\ Settle(Returns(slice(deduplicateResults(
                               collect(settledResults(pureCall.settled, pureCall.order))),
                            defaultTo(pureCall.limit, 50))))

RaceNext == AdapterSettles \/ SearchResumes

RaceSpec == RaceInit /\ [][RaceNext]_vars

\* C28: the list search returns is the same for every order in which the
\* adapter calls complete: it is the truncated, deduplicated concatenation of
\* the fulfilled adapters' results in the order of dispatch (google, bing,
\* duckduckgo, devto, hackernews), each adapter's results in the order it
\* returned them, so the survivor of two duplicate URLs is the one of the
\* adapter dispatched first.
C28_OrderFree ==
    (pureCall.fn = "search" /\ pureCall.returned /\ Len(pureCall.order) > 0) =>
        LET ok == succeeded(pureCall.engines, pureCall.configured, pureCall.outs)
            inDispatchOrder == flatten([i \in 1..Len(ok) |-> pureCall.outs[ok[i]].value])
        IN pureCall.value = slice(deduplicateResults(inDispatchOrder),
                                  defaultTo(pureCall.limit, 50))

\* The adapter dispatched last completed first, google last; both returned
\* the same page under different URLs, and google's result survived
C28_Witness ==
    /\ pureCall.fn = "search" /\ pureCall.returned
    /\ Len(pureCall.order) = 4
    /\ pureCall.order[1] = 4 /\ pureCall.order[4] = 1
    /\ pureCall.outs["google"] = Fulfilled(<<SearchResultOf(PageA, "a1"),
                                             SearchResultOf(PageB, "a1")>>)
    /\ pureCall.outs["hackernews"] = Fulfilled(<<SearchResultOf(PageAwww, "a2"),
                                                 SearchResultOf(PageC, "a2")>>)
    /\ Len(pureCall.value) >= 2
    /\ pureCall.value[1] = SearchResultOf(PageA, "a1")

----------------------------------------------------------------------------
\* Outbound HTTP reads of the components
\*
\* Each component's read is what its code calls: scraper.fetch (with its
\* skipRobotsCheck argument) or axios.get on the module's own import.

MaxReads == 3

\* A read that enters EthicalScraper.fetch
throughFetch(component, skipRobotsCheck) ==
    [component |-> component, via |-> "scraper.fetch", skipRobotsCheck |-> skipRobotsCheck]

\* A read sent with axios.get, outside the scraper
throughAxios(component) ==
    [component |-> component, via |-> "axios.get", skipRobotsCheck |-> TRUE]

\* GoogleSearchEngine.search, part_007 line 56
googleSearch == throughAxios("google")

\* BingSearchEngine.search, bing.ts: axios.get(this.API_ENDPOINT, ...)
bingSearch == throughAxios("bing")

\* CustomCrawlEngine.searchDuckDuckGo, part_008 line 24
searchDuckDuckGo == throughFetch("duckduckgo", TRUE)

\* CustomCrawlEngine.searchDevTo, part_008 line 67
searchDevTo == throughFetch("devto", FALSE)

\* CustomCrawlEngine.searchHackerNews, part_008 line 113
searchHackerNews == throughFetch("hackernews", TRUE)

\* HackerNewsSearchEngine.searchStories, part_009 line 77
searchStories == throughAxios("hackernews-api")

\* DevToSearchEngine.search, part_006 line 86
devToSearch == throughAxios("devto-api")

\* extractArticle, line 431, and processSearchResult, part_013 line 38
extractArticleRead == throughFetch("article", FALSE)

\* enrichAuthorFromProfile, line 377
enrichAuthorRead == throughFetch("author", FALSE)

\* The reads of the aggregator's adapters, of article extraction and of
\* author enrichment
ComponentReads ==
    {googleSearch, bingSearch, searchDuckDuckGo, searchDevTo, searchHackerNews,
     searchStories, devToSearch, extractArticleRead, enrichAuthorRead}

OutboundInit ==
    /\ Quiet
    /\ pureCall = [fn |-> "outbound", reads |-> <<>>]

\* A component makes its read
ComponentRead ==
    /\ pureCall.fn = "outbound"
    /\ Len(pureCall.reads) < MaxReads
    /\ \E read \in ComponentReads :
         pureCall' = [pureCall EXCEPT !.reads = Append(@, read)]
    /\ UNCHANGED ScraperVars

OutboundNext == ComponentRead

OutboundSpec == OutboundInit /\ [][OutboundNext]_vars

\* C26: every outbound HTTP read of every component goes through the
\* scraper's fetch; none is sent past its rate limit, robots check and cache.
C26_SingleGate ==
    pureCall.fn = "outbound" =>
        \A i \in 1..Len(pureCall.reads) : pureCall.reads[i].via = "scraper.fetch"

----------------------------------------------------------------------------
\* The prospecting run, src/index.ts (part_013), with the prospect database
\* (part_012)
\*
\* A run walks the search results one by one; between two results it awaits
\* the processing of one.  What the fetch and the extraction of a result come
\* to is an input of the step.  The database outlives a run.

MaxResults == 3
MaxRuns == 2
minScore == 40

ResultUrls == {"u1", "u2"}

\* What the processing of one search result can come to: the fetch throws
\* (robots disallow, hourly limit, retries exhausted, terminal HTTP error),
\* the article cannot be extracted, the text names the product, or the
\* article is scored
FetchFailures == {"robotsDisallow", "hourlyLimit", "retriesExhausted", "httpError"}
PageFailures == FetchFailures \cup {"notExtracted"}
PageScores == {30, 50, 90}
PageOutcomes ==
    {[kind |-> k, score |-> 0] : k \in PageFailures \cup {"mentionsAligna"}}
    \cup {[kind |-> "scored", score |-> sc] : sc \in PageScores}

NoProspect == [id |-> 0, url |-> "", score |-> 0, at |-> 0]

\* uuidv4(), line 68: an id that was never given before
uuidv4(run) == run.nextId

\* (mutant) a failed fetch is not caught
processSearchResult_Rethrow(run, url, outcome) ==
    IF outcome.kind \in FetchFailures
    THEN [threw |-> TRUE, prospect |-> NoProspect, created |-> FALSE]
    ELSE IF outcome.kind \in {"notExtracted", "mentionsAligna"}
    THEN [threw |-> FALSE, prospect |-> NoProspect, created |-> FALSE]
    ELSE [threw |-> FALSE, created |-> TRUE,
          prospect |-> [id |-> uuidv4(run), url |-> url, score |-> outcome.score,
                        at |-> run.i]]

\* processSearchResult, lines 28-90: null when the fetch throws, when the
\* article cannot be extracted or when the text names the product; else the
\* prospect with a new id.  at: the position of the result in the run
processSearchResult(run, url, outcome) ==
    IF outcome.kind \in FetchFailures \cup {"notExtracted", "mentionsAligna"}
    THEN [threw |-> FALSE, prospect |-> NoProspect, created |-> FALSE]
    ELSE [threw |-> FALSE, created |-> TRUE,
          prospect |-> [id |-> uuidv4(run), url |-> url, score |-> outcome.score,
                        at |-> run.i]]

\* ProspectDatabase.hasUrl, part_012 lines 297-305
hasUrl(db, url) == \E row \in db : row.url = url

\* ProspectDatabase.saveProspect, part_012 lines 138-193: INSERT OR REPLACE
\* into a table with id as primary key and url unique
saveProspect(db, prospect) ==
    {row \in db : row.id # prospect.id /\ row.url # prospect.url}
    \cup {[id |-> prospect.id, url |-> prospect.url]}

\* prospects.sort((a, b) => b.score - a.score), line 177
RECURSIVE sortByScore(_)
sortByScore(prospects) ==
    IF prospects = <<>> THEN <<>>
    ELSE LET best == CHOOSE k \in 1..Len(prospects) :
                        /\ \A j \in 1..Len(prospects) : prospects[j].score <= prospects[k].score
                        /\ \A j \in 1..(k - 1) : prospects[j].score < prospects[k].score
         IN <<prospects[best]>>
            \o sortByScore([j \in 1..(Len(prospects) - 1) |->
                              IF j < best THEN prospects[j] ELSE prospects[j + 1]])

\* runProspecting, lines 154-174: one turn of the loop over searchResults.
\* failed, fetched: the positions whose processing failed, was started
loopTurn(run, outcome) ==
    LET url == run.results[run.i]
    IN IF run.skipExisting /\ hasUrl(run.db, url)
       THEN [run EXCEPT !.i = @ + 1]
       ELSE LET done == processSearchResult(run, url, outcome)
                met == [run EXCEPT
                          !.fetched = @ \cup {run.i},
                          !.failed = IF outcome.kind \in PageFailures
                                     THEN @ \cup {run.i} ELSE @,
                          !.nextId = IF done.created THEN @ + 1 ELSE @]
            IN IF done.threw
               THEN [met EXCEPT !.threw = TRUE, !.returned = TRUE]
               ELSE IF done.created /\ done.prospect.score >= minScore
               THEN [met EXCEPT !.i = @ + 1,
                                !.prospects = Append(@, done.prospect),
                                !.db = saveProspect(@, done.prospect)]
               ELSE [met EXCEPT !.i = @ + 1]

RECURSIVE ResultLists(_)
ResultLists(n) ==
    IF n = 0 THEN {<<>>}
    ELSE LET shorter == ResultLists(n - 1)
         IN shorter \cup {Append(l, u) : l \in {m \in shorter : Len(m) = n - 1},
                                          u \in ResultUrls}

\* A run starts: with queries the results of the queries are concatenated
\* (lines 125-138), so a URL can occur more than once
NewRunCall(results, skipExisting, db, nextId, runs) ==
    [fn |-> "runProspecting", results |-> results, skipExisting |-> skipExisting,
     i |-> 1, prospects |-> <<>>, db |-> db, nextId |-> nextId, runs |-> runs,
     failed |-> {}, fetched |-> {}, threw |-> FALSE, returned |-> FALSE]

RunInit ==
    /\ Quiet
    /\ \E results \in ResultLists(MaxResults), skipExisting \in BOOLEAN :
          pureCall = NewRunCall(results, skipExisting, {}, 1, 1)

\* processSearchResult settles for the next search result
ProcessResult ==
    /\ pureCall.fn = "runProspecting" /\ ~pureCall.returned
    /\ pureCall.i <= Len(pureCall.results)
    /\ \E outcome \in PageOutcomes : pureCall' = loopTurn(pureCall, outcome)
    /\ UNCHANGED ScraperVars

\* The loop is over: the prospects are sorted and the run returns, lines 176-214
RunReturns ==
    /\ pureCall.fn = "runProspecting" /\ ~pureCall.returned
    /\ pureCall.i > Len(pureCall.results)
    /\ pureCall' = [pureCall EXCEPT !.returned = TRUE,
                                    !.prospects = sortByScore(@)]
    /\ UNCHANGED ScraperVars

\* runProspecting is called again, on the same database
NextRun ==
    /\ pureCall.fn = "runProspecting" /\ pureCall.returned /\ ~pureCall.threw
    /\ pureCall.runs < MaxRuns
    /\ \E results \in ResultLists(MaxResults), skipExisting \in BOOLEAN :
          pureCall' = NewRunCall(results, skipExisting, pureCall.db, pureCall.nextId,
                                 pureCall.runs + 1)
    /\ UNCHANGED ScraperVars

RunNext == ProcessResult \/ RunReturns \/ NextRun

RunSpec == RunInit /\ [][RunNext]_vars

\* C23: a failure while one search result is processed (robots disallow,
\* hourly limit, retries exhausted, terminal HTTP error, no article
\* extracted) skips only that result: the run never throws, walks all the
\* results and returns, with no prospect from a failed result.
C23_SkipOnly ==
    pureCall.fn = "runProspecting" =>
        /\ ~pureCall.threw
        /\ pureCall.failed \subseteq 1..(pureCall.i - 1)
        /\ \A k \in 1..Len(pureCall.prospects) : pureCall.prospects[k].at \notin pureCall.failed
        /\ pureCall.returned => pureCall.i = Len(pureCall.results) + 1

\* A run whose first result failed has returned a prospect from a later one
C23_Witness ==
    /\ pureCall.fn = "runProspecting" /\ pureCall.returned
    /\ 1 \in pureCall.failed
    /\ Len(pureCall.prospects) > 0

\* The prospects of a run hold no URL twice
oncePerUrl(run) ==
    \A j, k \in 1..Len(run.prospects) :
        run.prospects[j].url = run.prospects[k].url => j = k

\* A turn of the loop for a result the database already holds, skipExisting on
turnOnHeldUrl ==
    /\ pureCall.fn = "runProspecting" /\ ~pureCall.returned
    /\ pureCall.i <= Len(pureCall.results)
    /\ pureCall.skipExisting
    /\ hasUrl(pureCall.db, pureCall.results[pureCall.i])

\* C24: the prospects of one run never hold two prospects for the same URL,
\* whatever the list of search results, and with skipExisting on a result
\* whose URL the database holds is not fetched, scored or saved again.
C24_OncePerUrl ==
    [][/\ pureCall'.fn = "runProspecting" => oncePerUrl(pureCall')
       /\ turnOnHeldUrl => /\ pureCall'.fetched = pureCall.fetched
                           /\ pureCall'.nextId = pureCall.nextId
                           /\ pureCall'.prospects = pureCall.prospects
                           /\ pureCall'.db = pureCall.db]_vars

\* C25: the id of a prospect is stable under re-scoring: when a URL the
\* database holds is processed and saved again, in the same run or a later
\* one, the record of that URL keeps its id.
C25_StableId ==
    [][pureCall.fn = "runProspecting" =>
         \A before \in pureCall.db, after \in pureCall'.db :
             before.url = after.url => before.id = after.id]_vars

====
